---- MODULE Spec2Model ----
(***************************************************************************)
(* Model of the message compliance-and-dispatch pipeline of the MMS        *)
(* platform: the /send, /:messageId/retry, DELETE /:messageId and /webhook *)
(* handlers of routes/messages.js, the Message and Client models and the   *)
(* compliance and MMS services.                                            *)
(*                                                                         *)
(* Every handler is a sequence of steps, one per awaited storage or        *)
(* provider operation.  A mongoose document loaded by a request is a local *)
(* copy (doc) with the snapshot it was loaded from (snap); save() writes   *)
(* the paths that differ from the snapshot with $set.                      *)
(***************************************************************************)
EXTENDS Integers, Sequences, FiniteSets, TLC

VARIABLES
    tenant,      \* the Client document of the tenant (stored)
    messages,    \* the Message collection: id -> stored document
    nextId,      \* number of Message ids handed out so far
    req,         \* the requests being served: slot -> request frame
    attempts,    \* provider calls made, per message id
    hooks,       \* webhook callbacks received so far
    templates,   \* the Template collection: id -> stored document
    nextTemplateId, \* number of Template ids handed out so far
    confirmed,   \* provider calls accepted and recorded as "sent" (history)
    clock        \* the time new Date() returned last (UNSET before the first)

vars == <<tenant, messages, nextId, req, attempts, hooks, templates,
          nextTemplateId, confirmed, clock>>

-----------------------------------------------------------------------------
(* Bounds of the model *)

MaxMsgs == 1        \* Message ids handed out
MaxInflight == 2    \* requests served at once
MaxHooks == 2       \* webhook callbacks received under SpecHooks
MaxConcHooks == 1   \* webhook callbacks received under the other specifications
MaxTemplates == 3   \* Template ids handed out
MsgLimit == 2       \* subscription.messagesLimit of the tenant
MaxUses == 1        \* sends that may use a template under SpecTemplate

(* Program constants *)

DefaultMaxRetries == 3
BusinessStart == 9
BusinessEnd == 21
MaxTextLength == 1600
MaxMediaSize == 5242880

Slots == 1..MaxInflight
Ids == 1..MaxMsgs
UNSET == 0           \* an unset Date

\* the times new Date() may return: the clock has millisecond resolution, so
\* an evaluation returns the time of the evaluation before it or a later one
now == IF clock = UNSET THEN {1} ELSE {clock, clock + 1}
UNDEFINED == "undefined"

StatusEnum == {"pending", "sent", "delivered", "failed", "undelivered"}

-----------------------------------------------------------------------------
(* Text: a sequence of words; String.prototype.includes at word level *)

upperCase ==
    {"A", "B", "C", "D", "E", "F", "G", "H", "I", "J", "K", "L", "M",
     "N", "O", "P", "Q", "R", "S", "T", "U", "V", "W", "X", "Y", "Z"}

\* the lower-case form of one character
lowerChar(c) ==
    IF c \notin upperCase THEN c
    ELSE
         CASE c = "A" -> "a" [] c = "B" -> "b" [] c = "C" -> "c" [] c = "D" -> "d"
           [] c = "E" -> "e" [] c = "F" -> "f" [] c = "G" -> "g" [] c = "H" -> "h"
           [] c = "I" -> "i" [] c = "J" -> "j" [] c = "K" -> "k" [] c = "L" -> "l"
           [] c = "M" -> "m" [] c = "N" -> "n" [] c = "O" -> "o" [] c = "P" -> "p"
           [] c = "Q" -> "q" [] c = "R" -> "r" [] c = "S" -> "s" [] c = "T" -> "t"
           [] c = "U" -> "u" [] c = "V" -> "v" [] c = "W" -> "w" [] c = "X" -> "x"
           [] c = "Y" -> "y" [] c = "Z" -> "z"

RECURSIVE toLowerCase(_)
\* String.prototype.toLowerCase, character by character
toLowerCase(w) ==
    IF Len(w) = 0 THEN w
    ELSE IF Len(w) = 1 THEN lowerChar(w)
    ELSE LET half == Len(w) \div 2
         IN toLowerCase(SubSeq(w, 1, half))
              \o toLowerCase(SubSeq(w, half + 1, Len(w)))

lowerText(text) == [i \in DOMAIN text |-> toLowerCase(text[i])]

includes(text, w) == \E i \in DOMAIN text : text[i] = w

RECURSIVE textLength(_)
textLength(text) ==
    IF text = <<>> THEN 0
    ELSE Len(Head(text)) + (IF Len(text) > 1 THEN 1 ELSE 0) + textLength(Tail(text))

RECURSIVE filter(_, _)
\* Array.prototype.filter with the predicate "text includes the lowered entry"
filter(list, text) ==
    IF list = <<>> THEN <<>>
    ELSE IF includes(text, toLowerCase(Head(list)))
         THEN <<Head(list)>> \o filter(Tail(list), text)
         ELSE filter(Tail(list), text)

RECURSIVE join(_)
join(list) ==
    IF list = <<>> THEN ""
    ELSE IF Len(list) = 1 THEN Head(list)
    ELSE Head(list) \o ", " \o join(Tail(list))

-----------------------------------------------------------------------------
(* complianceService *)

restrictedKeywords ==
    <<"marijuana", "cannabis", "weed", "pot", "smoke", "smoking", "vape",
      "vaping", "e-cigarette", "nicotine", "tobacco", "high", "stoned",
      "baked", "blazed", "dank", "kush", "thc", "cbd", "hemp", "edibles",
      "concentrates", "bong", "pipe", "joint", "blunt", "dab", "wax",
      "sativa", "indica", "hybrid", "strain">>

requiredDisclaimers ==
    <<"For adults 21+ only", "Consume responsibly", "Not for sale to minors",
      "Check local laws", "This product is not approved by the FDA">>

inappropriateWords ==
    {"underage", "minor", "child", "illegal", "unlawful", "addiction", "addict"}

allowedTypes == {"image/jpeg", "image/png", "image/gif", "video/mp4", "audio/mp3"}

\* a mongoose array path is always an array, and every array is truthy
Truthy(list) == TRUE

verifyAge(recipient, client) ==
    IF ~client.complianceSettings.ageVerificationRequired THEN TRUE
    ELSE IF recipient.ageVerified THEN TRUE
    ELSE recipient.ageVerified

verifyConsent(recipient, client) ==
    IF ~client.complianceSettings.consentRequired THEN TRUE
    ELSE IF recipient.consentGiven THEN TRUE
    ELSE recipient.consentGiven

checkInappropriateContent(text) ==
    IF \E w \in inappropriateWords : includes(text, w)
    THEN [approved |-> FALSE, reason |-> "Content contains inappropriate language"]
    ELSE [approved |-> TRUE, reason |-> ""]

RECURSIVE checkMediaContent(_)
checkMediaContent(media) ==
    IF media = <<>> THEN [approved |-> TRUE, reason |-> ""]
    ELSE IF Head(media).mimeType \notin allowedTypes
         THEN [approved |-> FALSE,
               reason |-> "Unsupported media type: " \o Head(media).mimeType]
    ELSE IF Head(media).size > MaxMediaSize
         THEN [approved |-> FALSE,
               reason |-> "Media file too large: " \o ToString(Head(media).size)
                            \o " bytes"]
    ELSE checkMediaContent(Tail(media))

\* result.approved = false; result.reason = ...: the outcome of a failed
\* sub-check of screenContent
disapprove(result, failed, reason) ==
    IF failed
    THEN [result EXCEPT !.approved = FALSE, !.reason = reason]
    ELSE result

\* the restricted keywords found are flagged
flagKeywords(result, foundKeywords) ==
    [disapprove(result, Len(foundKeywords) > 0,
                "Content contains restricted keywords: " \o join(foundKeywords))
       EXCEPT !.flaggedKeywords = IF Len(foundKeywords) > 0 THEN foundKeywords
                                  ELSE @]

\* the outcome of a sub-check that returns {approved, reason}
disapproveBy(result, applies, check) ==
    disapprove(result, applies /\ ~check.approved, check.reason)

screenContent(content, client) ==
    LET text == lowerText(content.text)
        keywords == IF Truthy(client.complianceSettings.restrictedKeywords)
                    THEN client.complianceSettings.restrictedKeywords
                    ELSE restrictedKeywords
        r0 == [screened |-> TRUE, approved |-> TRUE, reason |-> "",
               flaggedKeywords |-> <<>>]
        r1 == flagKeywords(r0, filter(keywords, text))
        r2 == disapproveBy(r1, TRUE, checkInappropriateContent(text))
        r3 == disapproveBy(r2, Len(content.media) > 0,
                           checkMediaContent(content.media))
        r4 == disapprove(r3, textLength(text) > MaxTextLength,
                         "Message exceeds character limit")
    IN r4

\* a disclaimer check that wants every entry of the list in the text
checkDisclaimersAll(content, client) ==
    LET disclaimers == client.complianceSettings.requiredDisclaimers
        text == lowerText(content.text)
        includedDisclaimers == filter(disclaimers, text)
    IN [included |-> Len(includedDisclaimers) = Len(disclaimers)
                       /\ Len(disclaimers) > 0,
        found |-> includedDisclaimers]

checkDisclaimers(content, client) ==
    LET disclaimers == IF Truthy(client.complianceSettings.requiredDisclaimers)
                       THEN client.complianceSettings.requiredDisclaimers
                       ELSE requiredDisclaimers
        text == lowerText(content.text)
        includedDisclaimers == filter(disclaimers, text)
    IN [included |-> Len(includedDisclaimers) > 0, found |-> includedDisclaimers]

checkBusinessHours(hour) ==
    [allowed |-> hour >= BusinessStart /\ hour < BusinessEnd]

checkRateLimit(recipient, client) == [allowed |-> TRUE]

\* a check that pushes its reason and leaves passed as it was
failKeepsPassed(results, failed, reason) ==
    IF failed
    THEN [results EXCEPT !.details = Append(@, reason)]
    ELSE results

\* a check that is skipped once an earlier check has failed
failFirstOnly(results, failed, reason) ==
    IF failed /\ results.passed
    THEN [results EXCEPT !.passed = FALSE, !.details = Append(@, reason)]
    ELSE results

\* one numbered check of checkMessageCompliance: on failure clear passed and
\* push the reason
fail(results, failed, reason) ==
    IF failed
    THEN [results EXCEPT !.passed = FALSE, !.details = Append(@, reason)]
    ELSE results

\* check 3: the screening outcome is recorded, a disapproval fails
screened(results, contentCheck) ==
    fail([results EXCEPT !.contentScreened = contentCheck.screened,
                         !.screeningReason = contentCheck.reason],
         ~contentCheck.approved,
         "Content failed screening: " \o contentCheck.reason)

\* check 4: the disclaimer outcome is recorded, a miss fails when the tenant
\* requires disclaimers
disclaimed(results, disclaimerCheck, client) ==
    fail([results EXCEPT !.disclaimersIncluded = disclaimerCheck.included],
         ~disclaimerCheck.included
           /\ Len(client.complianceSettings.requiredDisclaimers) > 0,
         "Required disclaimers missing")

checkMessageCompliance(client, recipient, content, hour) ==
    LET results == [passed |-> TRUE, ageVerified |-> FALSE,
                    consentVerified |-> FALSE, contentScreened |-> FALSE,
                    disclaimersIncluded |-> FALSE, details |-> <<>>,
                    screeningReason |-> ""]
        ageCheck == verifyAge(recipient, client)
        s1 == fail([results EXCEPT !.ageVerified = ageCheck],
                   ~ageCheck, "Age verification required")
        consentCheck == verifyConsent(recipient, client)
        s2 == fail([s1 EXCEPT !.consentVerified = consentCheck],
                   ~consentCheck, "Consent verification required")
        s3 == screened(s2, screenContent(content, client))
        s4 == disclaimed(s3, checkDisclaimers(content, client), client)
        businessHoursCheck == checkBusinessHours(hour)
        s5 == fail(s4, ~businessHoursCheck.allowed,
                   "Messages not allowed outside business hours")
        rateLimitCheck == checkRateLimit(recipient, client)
        s6 == fail(s5, ~rateLimitCheck.allowed,
                   "Rate limit exceeded for recipient")
    IN s6

-----------------------------------------------------------------------------
(* Client model *)

canSendMessage(client) ==
    LET isActive == client.isActive /\ client.subscription.status = "active"
        withinLimits ==
            client.subscription.messagesUsed < client.subscription.messagesLimit
        compliant == client.complianceStatus = "compliant"
    IN isActive /\ withinLimits /\ compliant

\* this.subscription.messagesUsed += 1 on the local copy; save() then writes
\* the modified path with $set
incrementMessageCount(client) ==
    [client EXCEPT !.subscription.messagesUsed = @ + 1]

-----------------------------------------------------------------------------
(* Message model *)

\* the recipient.phoneNumber validator /^\+?[1-9]\d{1,14}$/ on the addresses
\* of the model
validPhoneNumber(v) == v \in {"+14155550100", "4155550199"}

\* a status update that stamps sentAt on a failure as well
updateDeliveryStatusStamped(doc, status, additionalData, t) ==
    LET d1 == [doc.delivery EXCEPT !.status = status]
        d2 == IF status \in {"sent", "failed"} THEN [d1 EXCEPT !.sentAt = t]
              ELSE IF status = "delivered" THEN [d1 EXCEPT !.deliveredAt = t]
              ELSE d1
        d3 == [k \in DOMAIN d2 |->
                 IF k \in DOMAIN additionalData THEN additionalData[k] ELSE d2[k]]
    IN [doc EXCEPT !.delivery = d3]

updateDeliveryStatus(doc, status, additionalData, t) ==
    LET d1 == [doc.delivery EXCEPT !.status = status]
        d2 == IF status = "sent" THEN [d1 EXCEPT !.sentAt = t]
              ELSE IF status = "delivered" THEN [d1 EXCEPT !.deliveredAt = t]
              ELSE d1
        d3 == [k \in DOMAIN d2 |->
                 IF k \in DOMAIN additionalData THEN additionalData[k] ELSE d2[k]]
    IN [doc EXCEPT !.delivery = d3]

canRetry(doc) ==
    doc.delivery.retryCount < doc.delivery.maxRetries
      /\ doc.delivery.status = "failed"

incrementRetry(doc) == [doc EXCEPT !.delivery.retryCount = @ + 1]

\* messageSchema.pre("save"): the error it passes to next(), "" for none
preSave(doc) ==
    IF doc.delivery.status = "pending" /\ ~doc.compliance.ageVerificationPassed
    THEN "Age verification required before sending message"
    ELSE IF doc.delivery.status = "pending" /\ ~doc.compliance.consentVerified
    THEN "Consent verification required before sending message"
    ELSE ""

\* schema validation of the paths the handlers write
validate(doc) ==
    IF doc.delivery.status \notin StatusEnum THEN "Validation failed"
    ELSE IF ~validPhoneNumber(doc.recipient.phoneNumber)
    THEN "Invalid phone number format"
    ELSE ""

modifiedPaths(doc, snap) ==
    {k \in DOMAIN doc.delivery : doc.delivery[k] # snap.delivery[k]}

\* document.save() of a loaded document on the collection db: validation, the
\* pre-save hook, then $set of the modified paths of the document id; a
\* document with nothing to write is looked up instead, so that the save of
\* a document that is no longer stored fails either way
save(doc, snap, id, db) ==
    LET verr == validate(doc)
        herr == preSave(doc)
        mod == modifiedPaths(doc, snap)
        error == IF verr # "" THEN verr
                 ELSE IF herr # "" THEN herr
                 ELSE IF id \notin DOMAIN db THEN "No document found"
                 ELSE ""
    IN [error |-> error,
        db |-> IF error = "" /\ mod # {}
               THEN [db EXCEPT ![id].delivery =
                        [k \in DOMAIN @ |-> IF k \in mod THEN doc.delivery[k] ELSE @[k]]]
               ELSE db]

\* new Message({...}) of POST /send with the schema defaults
NewMessage(body, content, verdict) ==
    [recipient |-> [phoneNumber |-> body.recipient.phoneNumber,
                    optOutStatus |-> body.recipient.optOutStatus,
                    ageVerified |-> verdict.ageVerified,
                    consentGiven |-> verdict.consentVerified],
     content |-> content,
     compliance |-> [ageVerificationPassed |-> verdict.ageVerified,
                     consentVerified |-> verdict.consentVerified,
                     contentScreened |-> verdict.contentScreened,
                     disclaimersIncluded |-> verdict.disclaimersIncluded],
     scheduling |-> [isScheduled |-> body.scheduling.isScheduled],
     delivery |-> [status |-> "pending", providerMessageId |-> UNDEFINED,
                   sentAt |-> UNSET, deliveredAt |-> UNSET,
                   failureReason |-> UNDEFINED, retryCount |-> 0,
                   maxRetries |-> DefaultMaxRetries]]

\* first save() of a new document: validation, the hook, then the insert
create(doc) ==
    LET verr == validate(doc)
        herr == preSave(doc)
    IN IF verr # "" THEN verr ELSE herr

-----------------------------------------------------------------------------
(* Template model *)

\* a JavaScript value that is falsy: a missing property or the empty string
Falsy(v) == v \in {UNDEFINED, ""}

\* variables[variable.name] of a plain object
property(variables, name) ==
    IF name \in DOMAIN variables THEN variables[name] ELSE UNDEFINED

placeholder(name) == "{{" \o name \o "}}"

\* renderedText.replace(new RegExp(`{{name}}`, "g"), value)
replace(text, name, value) ==
    [i \in DOMAIN text |-> IF text[i] = placeholder(name) THEN value ELSE text[i]]

\* the forEach of render over the declared variables
RECURSIVE renderText(_, _, _)
renderText(text, declared, variables) ==
    IF declared = <<>> THEN text
    ELSE LET variable == Head(declared)
             supplied == property(variables, variable.name)
             value == IF ~Falsy(supplied) THEN supplied
                      ELSE IF ~Falsy(variable.defaultValue)
                      THEN variable.defaultValue
                      ELSE placeholder(variable.name)
         IN renderText(replace(text, variable.name, value), Tail(declared),
                       variables)

render(template, variables) ==
    [text |-> renderText(template.content.text, template.content.variables,
                         variables),
     media |-> template.content.media,
     variables |-> variables]

\* the forEach of validateVariables: one error for each declared variable
\* that is required and has no truthy supplied value
RECURSIVE missingErrors(_, _)
missingErrors(declared, variables) ==
    IF declared = <<>> THEN <<>>
    ELSE LET variable == Head(declared)
             rest == missingErrors(Tail(declared), variables)
         IN IF variable.required /\ Falsy(property(variables, variable.name))
            THEN <<"Required variable '" \o variable.name \o "' is missing">>
                   \o rest
            ELSE rest

\* a validation that accepts every variable map
validateVariablesLax(template, variables) == [isValid |-> TRUE, errors |-> <<>>]

validateVariables(template, variables) ==
    LET errors == missingErrors(template.content.variables, variables)
    IN [isValid |-> Len(errors) = 0, errors |-> errors]

\* this.usage.totalSent += 1; this.usage.lastUsed = new Date() on the loaded
\* document
incrementUsage(template, t) ==
    [template EXCEPT !.usage = [totalSent |-> @.totalSent + 1, lastUsed |-> t]]

\* new Template({...}) with the schema defaults: a document of the tenant
\* (owned) or of another client
NewTemplate(name, content, owned) ==
    [owned |-> owned, name |-> name, content |-> content,
     usage |-> [totalSent |-> 0, lastUsed |-> UNSET]]

\* document.save() of a loaded template on the collection db: $set of the
\* modified paths of the document id, which fails when the document is no
\* longer stored. A path is modified when its value differs from the loaded
\* one; marked holds the nested paths that were assigned an object and count
\* as modified whatever the value (the library's tracking of a nested path
\* assigned an object equal to the loaded one differs between its versions)
saveTemplate(doc, snap, id, db, marked) ==
    LET mod == {k \in {"name", "content"} : doc[k] # snap[k]} \cup marked
        umod == {k \in DOMAIN doc.usage : doc.usage[k] # snap.usage[k]}
        error == IF id \notin DOMAIN db
                 THEN "No document found" ELSE ""
    IN [error |-> error,
        db |-> IF error = "" /\ mod \cup umod # {}
               THEN [db EXCEPT ![id] =
                       [k \in DOMAIN @ |->
                          IF k \in mod THEN doc[k]
                          ELSE IF k = "usage"
                          THEN [u \in DOMAIN @.usage |->
                                  IF u \in umod THEN doc.usage[u] ELSE @.usage[u]]
                          ELSE @[k]]]
               ELSE db]

-----------------------------------------------------------------------------
(* mmsService *)

providers == {"twilio", "bandwidth", "messagebird"}

providerLabel(provider) ==
    CASE provider = "twilio" -> "Twilio"
      [] provider = "bandwidth" -> "Bandwidth"
      [] provider = "messagebird" -> "MessageBird"

\* sendMessage up to the network call: the error thrown before it, "" for none
sendMessageError(client) ==
    IF client.mmsSettings.provider \notin providers
    THEN "Unsupported MMS provider: " \o client.mmsSettings.provider
    ELSE IF ~client.mmsSettings.credentialsConfigured
    THEN providerLabel(client.mmsSettings.provider) \o " credentials not configured"
    ELSE ""

\* the characters of a string
chars(v) == [i \in 1..Len(v) |-> SubSeq(v, i, i)]

digits == {"0", "1", "2", "3", "4", "5", "6", "7", "8", "9"}

startsWith(v, c) == Len(chars(v)) > 0 /\ chars(v)[1] = c

\* /^\+?[1-9]\d{1,14}$/.test(phoneNumber)
validatePhoneNumber(phoneNumber) ==
    LET cs == IF startsWith(phoneNumber, "+") THEN Tail(chars(phoneNumber))
              ELSE chars(phoneNumber)
    IN /\ Len(cs) >= 2 /\ Len(cs) <= 15
       /\ cs[1] \in digits \ {"0"}
       /\ \A i \in 2..Len(cs) : cs[i] \in digits

\* formatPhoneNumber: the error it throws ("" for none) and the address it
\* returns
formatPhoneNumber(phoneNumber) ==
    IF ~validatePhoneNumber(phoneNumber)
    THEN [error |-> "Invalid phone number format", value |-> UNDEFINED]
    ELSE IF ~startsWith(phoneNumber, "+")
    THEN IF Len(chars(phoneNumber)) = 10
         THEN [error |-> "", value |-> "+1" \o phoneNumber]
         ELSE [error |-> "", value |-> "+" \o phoneNumber]
    ELSE [error |-> "", value |-> phoneNumber]

\* messageData of twilioProvider: what client_twilio.messages.create is
\* called with
twilioMessageData(message, client) ==
    [to |-> message.recipient.phoneNumber, body |-> message.content.text]

\* the catch block of a provider function wrapping the transport error
wrapError(client, raw) ==
    providerLabel(client.mmsSettings.provider) \o " error: " \o raw

-----------------------------------------------------------------------------
(* Inputs of the requests *)

Phones == {"+14155550100", "4155550199"}

\* express-validator isMobilePhone on the addresses a request may carry
isMobilePhone(v) == v \in Phones

Recipient(phoneNumber, ageVerified, consentGiven, optOutStatus) ==
    [phoneNumber |-> phoneNumber, ageVerified |-> ageVerified,
     consentGiven |-> consentGiven, optOutStatus |-> optOutStatus]

Recipients ==
    { Recipient("+14155550100", TRUE, TRUE, FALSE),
      Recipient("+14155550100", TRUE, TRUE, TRUE),
      Recipient("+14155550100", FALSE, TRUE, FALSE),
      Recipient("4155550199", FALSE, FALSE, FALSE),
      Recipient("not-a-number", TRUE, TRUE, FALSE) }

Contents ==
    { [text |-> <<"Buy", "now", "21+", "only">>, media |-> <<>>],
      [text |-> <<"hello">>, media |-> <<>>],
      [text |-> <<"VAPE", "sale", "21+">>, media |-> <<>>] }

Hours == {9, 21}

ProviderErrors == {"timeout"}

\* the callbacks of the provider: a status and, for a failure, its error
Callbacks ==
    { [status |-> "pending", error |-> UNDEFINED],
      [status |-> "sent", error |-> UNDEFINED],
      [status |-> "delivered", error |-> UNDEFINED],
      [status |-> "failed", error |-> "carrier rejected"],
      [status |-> "undelivered", error |-> "carrier rejected"],
      [status |-> "bogus", error |-> UNDEFINED] }

NoId == 0

StrictSettings ==
    [ageVerificationRequired |-> TRUE, consentRequired |-> TRUE,
     restrictedKeywords |-> <<"vape">>, requiredDisclaimers |-> <<"21+">>]

LaxSettings ==
    [ageVerificationRequired |-> FALSE, consentRequired |-> FALSE,
     restrictedKeywords |-> <<"vape">>, requiredDisclaimers |-> <<"21+">>]

\* a Client document with the schema defaults, an active subscription and
\* configured twilio credentials
NewClient(settings) ==
    [isActive |-> TRUE, complianceStatus |-> "compliant",
     subscription |-> [status |-> "active", messagesUsed |-> 0,
                       messagesLimit |-> MsgLimit],
     complianceSettings |-> settings,
     mmsSettings |-> [provider |-> "twilio", credentialsConfigured |-> TRUE]]

-----------------------------------------------------------------------------
(* Request frames and responses *)

NoDoc == [none |-> TRUE]

Idle ==
    [kind |-> "none", pc |-> "idle", body |-> [none |-> TRUE], id |-> NoId,
     doc |-> NoDoc, snap |-> NoDoc, client |-> NoDoc, verdict |-> NoDoc,
     sendError |-> "", sendResult |-> "", res |-> [none |-> TRUE],
     messageContent |-> NoDoc, messageData |-> NoDoc]

Frame(kind, pc, body) == [Idle EXCEPT !.kind = kind, !.pc = pc, !.body = body]

Response(op, id, code, message) ==
    [op |-> op, id |-> id, code |-> code, message |-> message,
     details |-> <<>>, error |-> "", status |-> "", errors |-> <<>>]

\* a handler that answers does so in the turn of the event loop in which it
\* runs: the response is flushed before the server takes up another event
flushed == \A q \in Slots : req[q].pc # "done"

\* a request is taken on the lowest free slot; the handlers of the requests
\* being served interleave at their awaits
free(r) ==
    /\ flushed
    /\ req[r].kind = "none"
    /\ \A q \in Slots : q < r => req[q].kind # "none"

\* res.json / res.status().json(): the handler returns and the frame holds
\* the response until the end of the turn
respond(r, response) ==
    req' = [req EXCEPT ![r] =
              [Idle EXCEPT !.kind = response.op, !.pc = "done", !.res = response]]

continue(r, frame) == req' = [req EXCEPT ![r] = frame]

-----------------------------------------------------------------------------
(* POST /send *)

\* validation, Client.findById and canSendMessage; the handler then waits for
\* the opt-out lookup
SendBegin(r, body) ==
    /\ free(r)
    /\ IF ~isMobilePhone(body.recipient.phoneNumber)
          \/ ("text" \in DOMAIN body.content
                /\ textLength(body.content.text) > MaxTextLength)
       THEN respond(r, Response("send", NoId, 400, "validation errors"))
       ELSE IF ~canSendMessage(tenant)
       THEN respond(r, Response("send", NoId, 403,
              "Client cannot send messages. Check subscription status and compliance."))
       ELSE continue(r, [Frame("send", "optout", body) EXCEPT !.client = tenant])
    /\ UNCHANGED <<tenant, messages, nextId, templates, nextTemplateId, confirmed,
                   attempts, hooks, clock>>

\* a route that goes on to persist whatever the verdict is
EvaluateAndProceed(r, messageContent) ==
    \E hour \in Hours :
      continue(r, [req[r] EXCEPT
                     !.pc = "persist",
                     !.verdict = checkMessageCompliance(req[r].client,
                                     req[r].body.recipient, messageContent, hour),
                     !.messageContent = messageContent])

\* lines 89-101 of POST /send: the compliance verdict on the resolved content;
\* a passing send builds the record and waits for its first save
Evaluate(r, messageContent) ==
    \E hour \in Hours :
      LET complianceResult ==
              checkMessageCompliance(req[r].client, req[r].body.recipient,
                                     messageContent, hour)
      IN IF ~complianceResult.passed
         THEN respond(r, [Response("send", NoId, 400,
                                   "Message failed compliance check")
                            EXCEPT !.details = complianceResult.details])
         ELSE continue(r, [req[r] EXCEPT !.pc = "persist",
                                         !.verdict = complianceResult,
                                         !.messageContent = messageContent])

\* content.variables || {}
variablesOf(content) ==
    IF "variables" \in DOMAIN content THEN content.variables ELSE <<>>

\* the opt-out lookup returns; a send with a template waits for
\* Template.findById, a send with direct content is evaluated
SendComply(r) ==
    /\ flushed
    /\ req[r].kind = "send" /\ req[r].pc = "optout"
    /\ LET existingMessage ==
               \E id \in DOMAIN messages :
                   /\ messages[id].recipient.phoneNumber
                        = req[r].body.recipient.phoneNumber
                   /\ messages[id].recipient.optOutStatus
           content == req[r].body.content
       IN IF existingMessage
          THEN respond(r, Response("send", NoId, 400,
                                   "Recipient has opted out of messages"))
          ELSE IF "templateId" \in DOMAIN content
          THEN continue(r, [req[r] EXCEPT !.pc = "template"])
          ELSE Evaluate(r, content)
    /\ UNCHANGED <<tenant, messages, nextId, templates, nextTemplateId, confirmed,
                   attempts, hooks, clock>>

\* Template.findById returns: ownership, validateVariables, render, and
\* incrementUsage on the loaded document up to its save
SendLoadTemplate(r) ==
    /\ flushed
    /\ req[r].kind = "send" /\ req[r].pc = "template"
    /\ \E t \in now :
       LET content == req[r].body.content
       IN IF \/ content.templateId \notin DOMAIN templates
             \/ ~templates[content.templateId].owned
          THEN respond(r, Response("send", NoId, 404, "Template not found"))
          ELSE LET template == templates[content.templateId]
                   templateValidation ==
                       validateVariables(template, variablesOf(content))
                   renderedTemplate == render(template, variablesOf(content))
               IN IF ~templateValidation.isValid
                  THEN respond(r, [Response("send", NoId, 400,
                                            "Template validation failed")
                                     EXCEPT !.errors = templateValidation.errors])
                  ELSE continue(r, [req[r] EXCEPT
                         !.pc = "usage",
                         !.doc = incrementUsage(template, t),
                         !.snap = template,
                         !.messageContent =
                             [text |-> renderedTemplate.text,
                              media |-> renderedTemplate.media,
                              templateId |-> content.templateId]])
    /\ clock' = IF req'[r].pc = "usage"
                THEN req'[r].doc.usage.lastUsed ELSE clock
    /\ UNCHANGED <<tenant, messages, nextId, templates, nextTemplateId, confirmed,
                   attempts, hooks>>

\* the save of incrementUsage completes; the rendered content is evaluated
SendSaveUsage(r) ==
    /\ flushed
    /\ req[r].kind = "send" /\ req[r].pc = "usage"
    /\ LET saved == saveTemplate(req[r].doc, req[r].snap,
                                 req[r].body.content.templateId, templates, {})
       IN /\ templates' = saved.db
          /\ IF saved.error # ""
             THEN respond(r, Response("send", NoId, 500, "Server error"))
             ELSE Evaluate(r, req[r].messageContent)
    /\ UNCHANGED <<tenant, messages, nextId, nextTemplateId, confirmed, attempts,
                   hooks, clock>>

\* a route that dispatches scheduled messages at once as well
dispatchesAlways(body) == TRUE

\* if (!scheduling?.isScheduled): the message is sent at once
dispatchesNow(body) == ~body.scheduling.isScheduled

\* mmsService.sendMessage(message, client) is called: an error thrown before
\* the network call is caught at once by catch (sendError), which marks the
\* document failed and waits for its save; otherwise the handler waits for
\* the provider
sendMessage(frame) ==
    IF sendMessageError(frame.client) # ""
    THEN [frame EXCEPT
            !.pc = "markfailed",
            !.sendError = sendMessageError(frame.client),
            !.doc = updateDeliveryStatus(frame.doc, "failed",
                       [failureReason |-> sendMessageError(frame.client)], clock + 1)]
    ELSE [frame EXCEPT !.pc = "dispatch"]

\* a route that records the flags the request declares instead of the
\* verdict's and inserts the record without running the save hook
SendPersistUnguarded(r) ==
    /\ flushed
    /\ req[r].kind = "send" /\ req[r].pc = "persist"
    /\ nextId < MaxMsgs
    /\ LET declared == [req[r].verdict EXCEPT
                          !.ageVerified = req[r].body.recipient.ageVerified,
                          !.consentVerified = req[r].body.recipient.consentGiven]
           message == NewMessage(req[r].body, req[r].messageContent, declared)
           id == nextId + 1
       IN /\ messages' = (id :> message) @@ messages
          /\ nextId' = id
          /\ IF ~dispatchesNow(req[r].body)
             THEN respond(r, [Response("send", id, 200,
                                       "Message scheduled successfully")
                                EXCEPT !.status = "scheduled"])
             ELSE continue(r, sendMessage([req[r] EXCEPT !.id = id,
                                             !.doc = message, !.snap = message]))
    /\ UNCHANGED <<tenant, templates, nextTemplateId, confirmed, attempts, hooks, clock>>

\* the first save of the record completes
SendPersist(r) ==
    /\ flushed
    /\ req[r].kind = "send" /\ req[r].pc = "persist"
    /\ nextId < MaxMsgs
    /\ LET message == NewMessage(req[r].body, req[r].messageContent, req[r].verdict)
           id == nextId + 1
       IN IF create(message) # ""
          THEN /\ respond(r, Response("send", NoId, 500, "Server error"))
               /\ UNCHANGED <<messages, nextId, clock>>
          ELSE /\ messages' = (id :> message) @@ messages
               /\ nextId' = id
               /\ IF ~dispatchesNow(req[r].body)
                  THEN respond(r, [Response("send", id, 200,
                                            "Message scheduled successfully")
                                     EXCEPT !.status = "scheduled"])
                  ELSE continue(r, sendMessage([req[r] EXCEPT !.id = id,
                                                  !.doc = message,
                                                  !.snap = message]))
    /\ UNCHANGED <<tenant, templates, nextTemplateId, confirmed, attempts, hooks, clock>>

-----------------------------------------------------------------------------
(* the dispatch block shared by POST /send and POST /:messageId/retry *)

\* the provider answers the network call: on success the handler calls
\* updateDeliveryStatus("sent"), on an error updateDeliveryStatus("failed"),
\* and waits for the save
Dispatch(r) ==
    /\ flushed
    /\ req[r].kind \in {"send", "retry"} /\ req[r].pc = "dispatch"
    /\ attempts' = [attempts EXCEPT ![req[r].id] = @ + 1]
    /\ LET messageData == twilioMessageData(req[r].doc, req[r].client)
           messageId == "SM" \o ToString(req[r].id)
       IN \/ \E t \in now :
               continue(r, [req[r] EXCEPT
                  !.pc = "marksent",
                  !.sendResult = messageId,
                  !.messageData = messageData,
                  !.doc = updateDeliveryStatus(req[r].doc, "sent",
                             [providerMessageId |-> messageId], t)])
          \/ \E raw \in ProviderErrors :
               continue(r, [req[r] EXCEPT
                  !.pc = "markfailed",
                  !.sendError = wrapError(req[r].client, raw),
                  !.messageData = messageData,
                  !.doc = updateDeliveryStatus(req[r].doc, "failed",
                             [failureReason |-> wrapError(req[r].client, raw)],
                             clock + 1)])
    /\ clock' = IF req'[r].pc = "marksent"
                THEN req'[r].doc.delivery.sentAt ELSE clock
    /\ UNCHANGED <<tenant, messages, nextId, templates, nextTemplateId, confirmed,
                   hooks>>

\* the save of updateDeliveryStatus("sent") completes; the handler calls
\* incrementMessageCount and waits for the save of the client
MarkSent(r) ==
    /\ flushed
    /\ req[r].kind \in {"send", "retry"} /\ req[r].pc = "marksent"
    /\ LET saved == save(req[r].doc, req[r].snap, req[r].id, messages)
       IN /\ messages' = saved.db
          /\ IF saved.error # ""
             THEN /\ continue(r, [req[r] EXCEPT
                        !.pc = "markfailed",
                        !.sendError = saved.error,
                        !.doc = updateDeliveryStatus(req[r].doc, "failed",
                                   [failureReason |-> saved.error], clock + 1)])
                  /\ UNCHANGED confirmed
             ELSE /\ continue(r, [req[r] EXCEPT
                        !.pc = "count",
                        !.snap = req[r].doc,
                        !.client = incrementMessageCount(req[r].client)])
                  /\ confirmed' = confirmed + 1
    /\ UNCHANGED <<tenant, nextId, templates, nextTemplateId, attempts, hooks, clock>>

\* the save of the client completes; the notification is emitted and the
\* handler answers
IncrementCount(r) ==
    /\ flushed
    /\ req[r].kind \in {"send", "retry"} /\ req[r].pc = "count"
    /\ tenant' = [tenant EXCEPT !.subscription.messagesUsed =
                                    req[r].client.subscription.messagesUsed]
    /\ respond(r, [Response(req[r].kind, req[r].id, 200,
                            IF req[r].kind = "send"
                            THEN "Message sent successfully"
                            ELSE "Message retry successful")
                     EXCEPT !.status = "sent"])
    /\ UNCHANGED <<messages, nextId, templates, nextTemplateId, confirmed,
                   attempts, hooks, clock>>

\* the save of updateDeliveryStatus("failed") completes
MarkFailed(r) ==
    /\ flushed
    /\ req[r].kind \in {"send", "retry"} /\ req[r].pc = "markfailed"
    /\ LET saved == save(req[r].doc, req[r].snap, req[r].id, messages)
       IN /\ messages' = saved.db
          /\ IF saved.error # ""
             THEN respond(r, Response(req[r].kind, req[r].id, 500, "Server error"))
             ELSE respond(r, [Response(req[r].kind, req[r].id, 500,
                                       IF req[r].kind = "send"
                                       THEN "Failed to send message"
                                       ELSE "Retry failed")
                                EXCEPT !.error = req[r].sendError])
    /\ UNCHANGED <<tenant, nextId, templates, nextTemplateId, confirmed, attempts,
                   hooks, clock>>

-----------------------------------------------------------------------------
(* POST /:messageId/retry *)

\* Message.findOne and canRetry; the handler then waits for Client.findById
RetryBegin(r, messageId) ==
    /\ free(r)
    /\ IF messageId \notin DOMAIN messages
       THEN respond(r, Response("retry", messageId, 404, "Message not found"))
       ELSE IF ~canRetry(messages[messageId])
       THEN respond(r, Response("retry", messageId, 400,
              "Message cannot be retried. Max retries exceeded or not in failed status."))
       ELSE continue(r, [Frame("retry", "client", [messageId |-> messageId])
                           EXCEPT !.id = messageId, !.doc = messages[messageId],
                                  !.snap = messages[messageId]])
    /\ UNCHANGED <<tenant, messages, nextId, templates, nextTemplateId, confirmed,
                   attempts, hooks, clock>>

\* the client is loaded: canSendMessage, then incrementRetry on the loaded
\* document up to its save
RetryLoadClient(r) ==
    /\ flushed
    /\ req[r].kind = "retry" /\ req[r].pc = "client"
    /\ IF ~canSendMessage(tenant)
       THEN respond(r, Response("retry", req[r].id, 403, "Client cannot send messages"))
       ELSE continue(r, [req[r] EXCEPT !.pc = "increment", !.client = tenant,
                                       !.doc = incrementRetry(req[r].doc)])
    /\ UNCHANGED <<tenant, messages, nextId, templates, nextTemplateId, confirmed,
                   attempts, hooks, clock>>

\* the save of incrementRetry completes and the provider is called
RetryIncrement(r) ==
    /\ flushed
    /\ req[r].kind = "retry" /\ req[r].pc = "increment"
    /\ LET saved == save(req[r].doc, req[r].snap, req[r].id, messages)
       IN /\ messages' = saved.db
          /\ IF saved.error # ""
             THEN respond(r, Response("retry", req[r].id, 500, "Server error"))
             ELSE continue(r, sendMessage([req[r] EXCEPT !.snap = req[r].doc]))
    /\ UNCHANGED <<tenant, nextId, templates, nextTemplateId, confirmed, attempts,
                   hooks, clock>>

-----------------------------------------------------------------------------
(* DELETE /:messageId *)

CancelBegin(r, messageId) ==
    /\ free(r)
    /\ IF /\ messageId \in DOMAIN messages
          /\ messages[messageId].scheduling.isScheduled
          /\ messages[messageId].delivery.status = "pending"
       THEN continue(r, [Frame("cancel", "delete", [messageId |-> messageId])
                           EXCEPT !.id = messageId])
       ELSE respond(r, Response("cancel", messageId, 404,
                                "Scheduled message not found"))
    /\ UNCHANGED <<tenant, messages, nextId, templates, nextTemplateId, confirmed,
                   attempts, hooks, clock>>

\* a cancel that answers without deleting the record
CancelDeleteKeeps(r) ==
    /\ flushed
    /\ req[r].kind = "cancel" /\ req[r].pc = "delete"
    /\ messages' = messages
    /\ respond(r, Response("cancel", req[r].id, 200,
                           "Scheduled message cancelled successfully"))
    /\ UNCHANGED <<tenant, nextId, templates, nextTemplateId, confirmed, attempts,
                   hooks, clock>>

CancelDelete(r) ==
    /\ flushed
    /\ req[r].kind = "cancel" /\ req[r].pc = "delete"
    /\ messages' = [id \in DOMAIN messages \ {req[r].id} |-> messages[id]]
    /\ respond(r, Response("cancel", req[r].id, 200,
                           "Scheduled message cancelled successfully"))
    /\ UNCHANGED <<tenant, nextId, templates, nextTemplateId, confirmed, attempts,
                   hooks, clock>>

-----------------------------------------------------------------------------
(* POST /webhook *)

\* Message.findById, then updateDeliveryStatus on the loaded document up to
\* its save
WebhookBegin(r, messageId, status, error) ==
    /\ free(r)
    /\ hooks' = hooks + 1
    /\ IF messageId = NoId
       THEN /\ respond(r, Response("webhook", messageId, 400, "Message ID required"))
            /\ UNCHANGED clock
       ELSE IF messageId \notin DOMAIN messages
       THEN /\ respond(r, Response("webhook", messageId, 404, "Message not found"))
            /\ UNCHANGED clock
       ELSE \E t \in now :
            /\ continue(r, [Frame("webhook", "update",
                                  [messageId |-> messageId, status |-> status,
                                   error |-> error])
                              EXCEPT !.id = messageId,
                                     !.doc = updateDeliveryStatus(
                                                messages[messageId], status,
                                                [failureReason |-> error], t),
                                     !.snap = messages[messageId]])
            /\ clock' = IF status \in {"sent", "delivered"} THEN t ELSE clock
    /\ UNCHANGED <<tenant, messages, nextId, templates, nextTemplateId, confirmed,
                   attempts>>

\* the save of the status completes; the notification is emitted and the
\* handler answers
WebhookUpdate(r) ==
    /\ flushed
    /\ req[r].kind = "webhook" /\ req[r].pc = "update"
    /\ LET saved == save(req[r].doc, req[r].snap, req[r].id, messages)
       IN /\ messages' = saved.db
          /\ IF saved.error # ""
             THEN respond(r, Response("webhook", req[r].id, 500, "Server error"))
             ELSE respond(r, Response("webhook", req[r].id, 200,
                                      "Status updated successfully"))
    /\ UNCHANGED <<tenant, nextId, templates, nextTemplateId, confirmed, attempts,
                   hooks, clock>>

-----------------------------------------------------------------------------
(* the turn ends: the response is flushed and the slot is free again *)

Close(r) ==
    /\ req[r].pc = "done"
    /\ req' = [req EXCEPT ![r] = Idle]
    /\ UNCHANGED <<tenant, messages, nextId, templates, nextTemplateId, confirmed,
                   attempts, hooks, clock>>

-----------------------------------------------------------------------------
(* PUT /:clientId, PUT /:clientId/mms-settings and
   PUT /:clientId/compliance-settings *)

\* Object.assign / object spread: the properties of source over target's
assign(target, source) ==
    [k \in DOMAIN target \cup DOMAIN source |->
       IF k \in DOMAIN source THEN source[k] ELSE target[k]]

\* delete updateData.licenseNumber; delete updateData.subscription
withoutSensitive(updateData) ==
    [k \in DOMAIN updateData \ {"licenseNumber", "subscription"} |-> updateData[k]]

\* Client.findByIdAndUpdate(clientId, updateData): one storage operation
ClientUpdate(r, updateData) ==
    /\ free(r)
    /\ tenant' = assign(tenant, withoutSensitive(updateData))
    /\ respond(r, Response("client", NoId, 200, "Client updated successfully"))
    /\ UNCHANGED <<messages, nextId, templates, nextTemplateId, confirmed,
                   attempts, hooks, clock>>

\* Client.findById, then the new mmsSettings on the loaded document up to
\* its save
MmsSettingsBegin(r, settings) ==
    /\ free(r)
    /\ IF settings.provider \notin providers \cup {"custom"}
       THEN respond(r, Response("mms", NoId, 400, "validation errors"))
       ELSE continue(r, [Frame("mms", "save", settings) EXCEPT
                           !.client = [tenant EXCEPT !.mmsSettings =
                                          assign(@, settings)]])
    /\ UNCHANGED <<tenant, messages, nextId, templates, nextTemplateId, confirmed,
                   attempts, hooks, clock>>

MmsSettingsSave(r) ==
    /\ flushed
    /\ req[r].kind = "mms" /\ req[r].pc = "save"
    /\ tenant' = [tenant EXCEPT !.mmsSettings = req[r].client.mmsSettings]
    /\ respond(r, Response("mms", NoId, 200, "MMS settings updated successfully"))
    /\ UNCHANGED <<messages, nextId, templates, nextTemplateId, confirmed,
                   attempts, hooks, clock>>

\* Client.findById, then the merged complianceSettings on the loaded document
\* up to its save
ComplianceSettingsBegin(r, complianceSettings) ==
    /\ free(r)
    /\ continue(r, [Frame("compliance", "save", complianceSettings) EXCEPT
                      !.client = [tenant EXCEPT !.complianceSettings =
                                     assign(@, complianceSettings)]])
    /\ UNCHANGED <<tenant, messages, nextId, templates, nextTemplateId, confirmed,
                   attempts, hooks, clock>>

ComplianceSettingsSave(r) ==
    /\ flushed
    /\ req[r].kind = "compliance" /\ req[r].pc = "save"
    /\ tenant' = [tenant EXCEPT !.complianceSettings =
                                    req[r].client.complianceSettings]
    /\ respond(r, Response("compliance", NoId, 200,
                           "Compliance settings updated successfully"))
    /\ UNCHANGED <<messages, nextId, templates, nextTemplateId, confirmed,
                   attempts, hooks, clock>>

-----------------------------------------------------------------------------
(* routes/templates.js: POST /, PUT /:templateId, DELETE /:templateId and
   POST /:templateId/duplicate *)

\* Template.findOne({name, clientId}) finds a template of the tenant
nameExists(name, except) ==
    \E id \in DOMAIN templates \ except :
        templates[id].owned /\ templates[id].name = name

\* Template.findOne({_id, clientId}) finds the template
ownedTemplate(templateId) ==
    templateId \in DOMAIN templates /\ templates[templateId].owned

\* the name lookup; the handler then builds the document and waits for its
\* save
TemplateCreateBegin(r, name, content) ==
    /\ free(r)
    /\ IF nameExists(name, {})
       THEN respond(r, Response("tcreate", NoId, 400, "Template name already exists"))
       ELSE continue(r, [Frame("tcreate", "save", [name |-> name]) EXCEPT
                           !.doc = NewTemplate(name, content, TRUE)])
    /\ UNCHANGED <<tenant, messages, nextId, templates, nextTemplateId, confirmed,
                   attempts, hooks, clock>>

\* the lookup of the original; the handler then builds the copy and waits
\* for its save
TemplateDuplicateBegin(r, templateId) ==
    /\ free(r)
    /\ IF ~ownedTemplate(templateId)
       THEN respond(r, Response("tduplicate", templateId, 404, "Template not found"))
       ELSE continue(r, [Frame("tduplicate", "save", [templateId |-> templateId])
                           EXCEPT !.doc =
                             [templates[templateId] EXCEPT
                                !.name = @ \o " (Copy)",
                                !.usage = [totalSent |-> 0, lastUsed |-> UNSET]]])
    /\ UNCHANGED <<tenant, messages, nextId, templates, nextTemplateId, confirmed,
                   attempts, hooks, clock>>

\* the save of a new template document: the insert
TemplateInsert(r) ==
    /\ flushed
    /\ req[r].kind \in {"tcreate", "tduplicate"} /\ req[r].pc = "save"
    /\ nextTemplateId < MaxTemplates
    /\ templates' = ((nextTemplateId + 1) :> req[r].doc) @@ templates
    /\ nextTemplateId' = nextTemplateId + 1
    /\ respond(r, Response(req[r].kind, nextTemplateId + 1, 201,
                           IF req[r].kind = "tcreate"
                           THEN "Template created successfully"
                           ELSE "Template duplicated successfully"))
    /\ UNCHANGED <<tenant, messages, nextId, confirmed, attempts, hooks, clock>>

\* Template.findOneAndDelete({_id, clientId}): one storage operation
TemplateDelete(r, templateId) ==
    /\ free(r)
    /\ IF ~ownedTemplate(templateId)
       THEN /\ respond(r, Response("tdelete", templateId, 404, "Template not found"))
            /\ UNCHANGED templates
       ELSE /\ templates' = [id \in DOMAIN templates \ {templateId} |->
                               templates[id]]
            /\ respond(r, Response("tdelete", templateId, 200,
                                   "Template deleted successfully"))
    /\ UNCHANGED <<tenant, messages, nextId, nextTemplateId, confirmed, attempts,
                   hooks, clock>>

\* the lookup of the template; a new name waits for the name lookup, any
\* other change is assigned to the loaded document, which waits for its save
TemplateUpdateBegin(r, templateId, updateData) ==
    /\ free(r)
    /\ IF ~ownedTemplate(templateId)
       THEN respond(r, Response("tupdate", templateId, 404, "Template not found"))
       ELSE LET template == templates[templateId]
                frame == [Frame("tupdate", "save", updateData) EXCEPT
                            !.id = templateId, !.doc = template,
                            !.snap = template]
            IN IF "name" \in DOMAIN updateData /\ updateData.name # template.name
               THEN continue(r, [frame EXCEPT !.pc = "name"])
               ELSE continue(r, [frame EXCEPT !.doc = assign(template, updateData)])
    /\ UNCHANGED <<tenant, messages, nextId, templates, nextTemplateId, confirmed,
                   attempts, hooks, clock>>

\* the name lookup of PUT /:templateId returns
TemplateUpdateName(r) ==
    /\ flushed
    /\ req[r].kind = "tupdate" /\ req[r].pc = "name"
    /\ IF nameExists(req[r].body.name, {req[r].id})
       THEN respond(r, Response("tupdate", req[r].id, 400,
                                "Template name already exists"))
       ELSE continue(r, [req[r] EXCEPT !.pc = "save",
                                       !.doc = assign(req[r].doc, req[r].body)])
    /\ UNCHANGED <<tenant, messages, nextId, templates, nextTemplateId, confirmed,
                   attempts, hooks, clock>>

\* the save of the updated template completes; the content of the body,
\* assigned as an object, is written when it differs from the loaded one and
\* may be written when it equals it
TemplateUpdateSave(r) ==
    /\ flushed
    /\ req[r].kind = "tupdate" /\ req[r].pc = "save"
    /\ \E marked \in {{}, DOMAIN req[r].body \cap {"content"}} :
       LET saved == saveTemplate(req[r].doc, req[r].snap, req[r].id, templates,
                                 marked)
       IN /\ templates' = saved.db
          /\ IF saved.error # ""
             THEN respond(r, Response("tupdate", req[r].id, 500, "Server error"))
             ELSE respond(r, Response("tupdate", req[r].id, 200,
                                      "Template updated successfully"))
    /\ UNCHANGED <<tenant, messages, nextId, nextTemplateId, confirmed, attempts,
                   hooks, clock>>

-----------------------------------------------------------------------------

Init ==
    /\ tenant \in {NewClient(StrictSettings), NewClient(LaxSettings)}
    /\ messages = <<>>
    /\ nextId = 0
    /\ req = [r \in Slots |-> Idle]
    /\ attempts = [id \in Ids |-> 0]
    /\ hooks = 0
    /\ templates = <<>>
    /\ nextTemplateId = 0
    /\ confirmed = 0
    /\ clock = UNSET

\* a tenant that requires both verifications
InitConc == Init /\ tenant = NewClient(StrictSettings)

\* the requests the server may receive: sends with bodies over the recipients
\* and contents given, retries, cancels, and the callbacks given while fewer
\* than maxHooks have been received
Sends(recipients, contents) ==
    \E r \in Slots, recipient \in recipients, content \in contents,
       isScheduled \in BOOLEAN :
      SendBegin(r, [recipient |-> recipient, content |-> content,
                    scheduling |-> [isScheduled |-> isScheduled]])

Retries == \E r \in Slots, id \in Ids : RetryBegin(r, id)

Cancels == \E r \in Slots, id \in Ids : CancelBegin(r, id)

Webhooks(callbacks, maxHooks) ==
    \E r \in Slots, id \in Ids \cup {NoId}, callback \in callbacks :
      hooks < maxHooks /\ WebhookBegin(r, id, callback.status, callback.error)

Requests(recipients, contents, callbacks, maxHooks) ==
    \/ Sends(recipients, contents)
    \/ Retries
    \/ Cancels
    \/ Webhooks(callbacks, maxHooks)

\* the steps of the requests being served
SendSteps ==
    \/ \E r \in Slots : SendComply(r)
    \/ \E r \in Slots : SendPersist(r)
    \/ \E r \in Slots : Dispatch(r)
    \/ \E r \in Slots : MarkSent(r)
    \/ \E r \in Slots : IncrementCount(r)
    \/ \E r \in Slots : MarkFailed(r)

Steps ==
    \/ SendSteps
    \/ \E r \in Slots : RetryLoadClient(r)
    \/ \E r \in Slots : RetryIncrement(r)
    \/ \E r \in Slots : CancelDelete(r)
    \/ \E r \in Slots : WebhookUpdate(r)

\* the changes of the tenant its administrators may request
ClientUpdates == {[isActive |-> FALSE], [isActive |-> TRUE]}

MmsSettings ==
    { [provider |-> "twilio", credentialsConfigured |-> TRUE],
      [provider |-> "twilio", credentialsConfigured |-> FALSE],
      [provider |-> "custom", credentialsConfigured |-> TRUE],
      [provider |-> "smtp", credentialsConfigured |-> TRUE] }

ComplianceUpdates ==
    { [ageVerificationRequired |-> FALSE, consentRequired |-> FALSE],
      [ageVerificationRequired |-> TRUE, consentRequired |-> TRUE] }

ClientRequests(updates, mmsSettings, complianceUpdates) ==
    \/ \E r \in Slots, updateData \in updates : ClientUpdate(r, updateData)
    \/ \E r \in Slots, settings \in mmsSettings : MmsSettingsBegin(r, settings)
    \/ \E r \in Slots, settings \in complianceUpdates :
         ComplianceSettingsBegin(r, settings)

ClientSteps ==
    \/ \E r \in Slots : MmsSettingsSave(r)
    \/ \E r \in Slots : ComplianceSettingsSave(r)

\* the sends, retries and cancels of the tenant over all recipients and
\* contents
Next ==
    \/ Sends(Recipients, Contents)
    \/ Retries
    \/ Cancels
    \/ SendSteps
    \/ \E r \in Slots : RetryLoadClient(r)
    \/ \E r \in Slots : RetryIncrement(r)
    \/ \E r \in Slots : CancelDelete(r)
    \/ \E r \in Slots : Close(r)

Spec == InitConc /\ [][Next]_vars

\* the whole life of a message of one verified recipient: well-formed sends,
\* retries, cancels and the status callbacks of the provider
ConcRecipients == {Recipient("+14155550100", TRUE, TRUE, FALSE)}

ConcContents == {[text |-> <<"Buy", "now", "21+", "only">>, media |-> <<>>]}

ConcCallbacks == {callback \in Callbacks :
                    callback.status \in {"sent", "delivered", "failed"}}

NextConc ==
    \/ Requests(ConcRecipients, ConcContents, ConcCallbacks, MaxConcHooks)
    \/ Steps
    \/ \E r \in Slots : Close(r)

SpecConc == InitConc /\ [][NextConc]_vars

\* the same for a tenant that requires neither verification and a recipient
\* who declared neither
LaxRecipients == {Recipient("4155550199", FALSE, FALSE, FALSE)}

InitLax == Init /\ tenant = NewClient(LaxSettings)

NextLax ==
    \/ Requests(LaxRecipients, ConcContents, ConcCallbacks, MaxConcHooks)
    \/ Steps
    \/ \E r \in Slots : Close(r)

SpecLax == InitLax /\ [][NextLax]_vars

\* the sends to that recipient while the administrators of a tenant change
\* its settings
NextClient ==
    \/ Sends(LaxRecipients, ConcContents)
    \/ ClientRequests(ClientUpdates, MmsSettings, ComplianceUpdates)
    \/ SendSteps
    \/ ClientSteps
    \/ \E r \in Slots : Close(r)

SpecClient == InitConc /\ [][NextClient]_vars

\* a message and every callback the webhook accepts, in any order
NextHooks ==
    \/ Sends(ConcRecipients, ConcContents)
    \/ Webhooks(Callbacks, MaxHooks)
    \/ SendSteps
    \/ \E r \in Slots : WebhookUpdate(r)
    \/ \E r \in Slots : Close(r)

SpecHooks == InitConc /\ [][NextHooks]_vars

\* A collection that already holds a record whose compliance sub-record is
\* not satisfied (written before the tenant's settings were tightened, or
\* around the /send route).
StaleMessage(agePassed, consentVerified, status, isScheduled) ==
    [recipient |-> [phoneNumber |-> "+14155550100", optOutStatus |-> FALSE,
                    ageVerified |-> agePassed, consentGiven |-> consentVerified],
     content |-> [text |-> <<"Buy", "now", "21+", "only">>, media |-> <<>>],
     compliance |-> [ageVerificationPassed |-> agePassed,
                     consentVerified |-> consentVerified,
                     contentScreened |-> TRUE, disclaimersIncluded |-> TRUE],
     scheduling |-> [isScheduled |-> isScheduled],
     delivery |-> [status |-> status, providerMessageId |-> UNDEFINED,
                   sentAt |-> UNSET, deliveredAt |-> UNSET,
                   failureReason |-> UNDEFINED, retryCount |-> 0,
                   maxRetries |-> DefaultMaxRetries]]

InitStale ==
    /\ tenant = NewClient(StrictSettings)
    /\ \E agePassed \in BOOLEAN, consentVerified \in BOOLEAN,
          status \in {"pending", "failed"}, isScheduled \in BOOLEAN :
         messages = (1 :> StaleMessage(agePassed, consentVerified, status,
                                       isScheduled))
    /\ nextId = 1
    /\ req = [r \in Slots |-> Idle]
    /\ attempts = [id \in Ids |-> 0]
    /\ hooks = 0
    /\ templates = <<>>
    /\ nextTemplateId = 0
    /\ confirmed = 0
    /\ clock = UNSET

NextStale ==
    \/ \E r \in Slots, id \in Ids : RetryBegin(r, id)
    \/ \E r \in Slots, id \in Ids : CancelBegin(r, id)
    \/ \E r \in Slots, id \in Ids, callback \in ConcCallbacks :
         hooks < MaxConcHooks /\ WebhookBegin(r, id, callback.status, callback.error)
    \/ \E r \in Slots : Dispatch(r)
    \/ \E r \in Slots : MarkSent(r)
    \/ \E r \in Slots : IncrementCount(r)
    \/ \E r \in Slots : MarkFailed(r)
    \/ \E r \in Slots : RetryLoadClient(r)
    \/ \E r \in Slots : RetryIncrement(r)
    \/ \E r \in Slots : CancelDelete(r)
    \/ \E r \in Slots : WebhookUpdate(r)
    \/ \E r \in Slots : Close(r)

SpecStale == InitStale /\ [][NextStale]_vars

-----------------------------------------------------------------------------
(* Sends that take their content from a template, and the template routes *)

Declared(name, required, defaultValue) ==
    [name |-> name, required |-> required, defaultValue |-> defaultValue]

\* the declarations a template may carry for its two placeholders
DeclaredName == {Declared("name", required, defaultValue) :
                   required \in BOOLEAN, defaultValue \in {"", "friend"}}

DeclaredCode == {Declared("code", required, defaultValue) :
                   required \in BOOLEAN, defaultValue \in {"", "vape"}}

DeclaredLists ==
    {<<>>} \cup {<<n>> : n \in DeclaredName} \cup {<<c>> : c \in DeclaredCode}
      \cup {<<n, c>> : n \in DeclaredName, c \in DeclaredCode}

\* the content of a template with the two placeholders
TemplateContent(declared) ==
    [text |-> <<"Hi", "{{name}}", "use", "{{code}}", "21+">>, media |-> <<>>,
     variables |-> declared]

\* the variable maps a request may carry
VariableMaps ==
    UNION {[names -> {"", "Ann"}] : names \in SUBSET {"name", "code"}}

\* a collection that holds a template of the tenant (1) with one of the
\* declaration lists given, and a template of another client (2); the later
\* ids are handed out by the create and duplicate routes
InitTemplates(lists) ==
    /\ tenant = NewClient(StrictSettings)
    /\ messages = <<>>
    /\ nextId = 0
    /\ req = [r \in Slots |-> Idle]
    /\ attempts = [id \in Ids |-> 0]
    /\ hooks = 0
    /\ \E declared \in lists :
         templates = (1 :> NewTemplate("promo", TemplateContent(declared), TRUE))
                       @@ (2 :> NewTemplate("promo", TemplateContent(<<>>), FALSE))
    /\ nextTemplateId = 2
    /\ confirmed = 0
    /\ clock = UNSET

\* the sends that take their content from a template
TemplateSends(recipients, ids, maps) ==
    \E r \in Slots, recipient \in recipients, id \in ids, variables \in maps :
      /\ id \in DOMAIN templates => templates[id].usage.totalSent < MaxUses
      /\ SendBegin(r, [recipient |-> recipient,
                       content |-> [templateId |-> id, variables |-> variables],
                       scheduling |-> [isScheduled |-> FALSE]])

\* the requests of the template routes
TemplateRequests(names, lists, ids, updates) ==
    \/ \E r \in Slots, name \in names, declared \in lists :
         TemplateCreateBegin(r, name, TemplateContent(declared))
    \/ \E r \in Slots, id \in ids : TemplateDuplicateBegin(r, id)
    \/ \E r \in Slots, id \in ids : TemplateDelete(r, id)
    \/ \E r \in Slots, id \in ids, updateData \in updates :
         TemplateUpdateBegin(r, id, updateData)

TemplateSteps ==
    \/ \E r \in Slots : SendLoadTemplate(r)
    \/ \E r \in Slots : SendSaveUsage(r)
    \/ \E r \in Slots : TemplateInsert(r)
    \/ \E r \in Slots : TemplateUpdateName(r)
    \/ \E r \in Slots : TemplateUpdateSave(r)

\* a template with a required name that has a default and an optional code
\* whose default is a restricted keyword
SendLists ==
    {<<Declared("name", TRUE, "friend"), Declared("code", FALSE, "vape")>>}

\* the variable maps of the sends: none, the name, the name and the code
SendMaps == {<<>>, [name |-> "Ann"], [name |-> "Ann", code |-> "Ann"]}

\* a recipient that opts out with the request
OptOutRecipients == {Recipient("+14155550100", TRUE, TRUE, TRUE)}

\* the update of a template: a new name and a content without declarations
TemplateUpdates ==
    {[name |-> "promo (Copy)", content |-> TemplateContent(<<>>)]}

InitTemplate == InitTemplates(SendLists)

\* template sends of the tenant while its templates are created, duplicated,
\* updated and deleted
NextTemplate ==
    \/ TemplateSends(ConcRecipients, {1, 2}, SendMaps)
    \/ TemplateSends(OptOutRecipients, {1}, {[name |-> "Ann", code |-> "Ann"]})
    \/ TemplateRequests({"promo"}, {<<>>}, {1}, TemplateUpdates)
    \/ TemplateSteps
    \/ SendSteps
    \/ \E r \in Slots : Close(r)

SpecTemplate == InitTemplate /\ [][NextTemplate]_vars

-----------------------------------------------------------------------------
(* POST /:templateId/preview over every declaration list and variable map *)

\* Template.findOne({_id, clientId}), validateVariables and render; the frame
\* keeps the request, the template found and what the handler computed
Preview(r, templateId, variables) ==
    /\ free(r)
    /\ LET frame == [Idle EXCEPT !.kind = "preview", !.pc = "done",
                                 !.id = templateId,
                                 !.body = [variables |-> variables]]
       IN IF ~ownedTemplate(templateId)
          THEN continue(r, [frame EXCEPT
                 !.res = Response("preview", templateId, 404, "Template not found")])
          ELSE LET template == templates[templateId]
                   validation == validateVariables(template, variables)
               IN IF ~validation.isValid
                  THEN continue(r, [frame EXCEPT
                         !.doc = template,
                         !.verdict = validation,
                         !.res = [Response("preview", templateId, 400,
                                           "Invalid variables")
                                    EXCEPT !.errors = validation.errors]])
                  ELSE continue(r, [frame EXCEPT
                         !.doc = template,
                         !.verdict = validation,
                         !.messageContent = render(template, variables),
                         !.res = Response("preview", templateId, 200, "")])
    /\ UNCHANGED <<tenant, messages, nextId, templates, nextTemplateId, confirmed,
                   attempts, hooks, clock>>

InitVariables == InitTemplates(DeclaredLists)

NextVariables ==
    \/ \E r \in Slots, id \in {1, 2}, variables \in VariableMaps :
         Preview(r, id, variables)
    \/ \E r \in Slots : Close(r)

SpecVariables == InitVariables /\ [][NextVariables]_vars

-----------------------------------------------------------------------------
(* The real-time notification may fail: io.to(room).emit(...) throws *)

EmitErrors == {"socket adapter unavailable"}

\* POST /send, lines 138-146: incrementMessageCount succeeds, then the emit
\* throws inside the try block and control passes to catch (sendError)
IncrementCountEmitFails(r) ==
    /\ flushed
    /\ req[r].kind = "send" /\ req[r].pc = "count"
    /\ tenant' = [tenant EXCEPT !.subscription.messagesUsed =
                                    req[r].client.subscription.messagesUsed]
    /\ \E error \in EmitErrors :
         continue(r, [req[r] EXCEPT
                        !.pc = "markfailed",
                        !.sendError = error,
                        !.doc = updateDeliveryStatus(req[r].doc, "failed",
                                   [failureReason |-> error], clock + 1)])
    /\ UNCHANGED <<messages, nextId, templates, nextTemplateId, confirmed, attempts, hooks, clock>>

\* POST /webhook, lines 355-371: the status is saved, then the emit throws
\* and the outer catch answers 500
WebhookUpdateEmitFails(r) ==
    /\ flushed
    /\ req[r].kind = "webhook" /\ req[r].pc = "update"
    /\ LET saved == save(req[r].doc, req[r].snap, req[r].id, messages)
       IN /\ saved.error = ""
          /\ messages' = saved.db
          /\ respond(r, Response("webhook", req[r].id, 500, "Server error"))
    /\ UNCHANGED <<tenant, nextId, templates, nextTemplateId, confirmed, attempts, hooks, clock>>

NextFault ==
    \/ Requests(ConcRecipients, ConcContents, ConcCallbacks, MaxConcHooks)
    \/ Steps
    \/ \E r \in Slots : Close(r)
    \/ \E r \in Slots : IncrementCountEmitFails(r)
    \/ \E r \in Slots : WebhookUpdateEmitFails(r)

SpecFault == InitConc /\ [][NextFault]_vars

-----------------------------------------------------------------------------
(* complianceService.checkMessageCompliance applied to contents that fail
   several checks, for tenants with and without keyword and disclaimer
   lists *)

RECURSIVE pad(_)
\* a word of n characters
pad(n) ==
    IF n = 0 THEN ""
    ELSE IF n = 1 THEN "x"
    ELSE LET half == pad(n \div 2)
         IN half \o half \o (IF n % 2 = 1 THEN "x" ELSE "")

LongWord == pad(MaxTextLength + 1)

ScreenTexts ==
    { <<"hello", "21+">>, <<"hello">>, <<"VAPE", "sale", "21+">>,
      <<"vape", "for", "minor">>, <<"illegal", "21+">>, <<"weed", "21+">>,
      <<LongWord>>, <<"vape", LongWord>>, <<"Consume responsibly">> }

ScreenMedia ==
    { <<>>,
      <<[mimeType |-> "application/pdf", size |-> 1024]>>,
      <<[mimeType |-> "image/png", size |-> MaxMediaSize + 1]>> }

ScreenContents ==
    {[text |-> text, media |-> media] : text \in ScreenTexts, media \in ScreenMedia}

ScreenSettings ==
    {[ageVerificationRequired |-> TRUE, consentRequired |-> TRUE,
      restrictedKeywords |-> keywords, requiredDisclaimers |-> disclaimers] :
        keywords \in {<<>>, <<"vape">>},
        disclaimers \in {<<>>, <<"21+", "Consume responsibly">>}}

\* a call of checkMessageCompliance({client, recipient, content}) for the
\* stored tenant; the frame keeps the arguments and the verdict returned
Comply(r, recipient, content) ==
    /\ free(r)
    /\ \E hour \in Hours :
         req' = [req EXCEPT ![r] =
                   [Idle EXCEPT !.kind = "comply", !.pc = "done",
                                !.body = [recipient |-> recipient,
                                          content |-> content],
                                !.client = tenant,
                                !.verdict = checkMessageCompliance(tenant,
                                                recipient, content, hour)]]
    /\ UNCHANGED <<tenant, messages, nextId, templates, nextTemplateId, confirmed,
                   attempts, hooks, clock>>

InitScreen ==
    /\ tenant \in {NewClient(settings) : settings \in ScreenSettings}
    /\ messages = <<>>
    /\ nextId = 0
    /\ req = [r \in Slots |-> Idle]
    /\ attempts = [id \in Ids |-> 0]
    /\ hooks = 0
    /\ templates = <<>>
    /\ nextTemplateId = 0
    /\ confirmed = 0
    /\ clock = UNSET

NextScreen ==
    \/ \E r \in Slots, recipient \in ConcRecipients, content \in ScreenContents :
         Comply(r, recipient, content)
    \/ \E r \in Slots : Close(r)

SpecScreen == InitScreen /\ [][NextScreen]_vars

-----------------------------------------------------------------------------
(* Vocabulary of the properties *)

complianceSatisfied(doc) ==
    doc.compliance.ageVerificationPassed /\ doc.compliance.consentVerified

\* request r takes the step that leaves position pc of a handler of that kind
steps(r, kind, pc) ==
    req[r].kind = kind /\ req[r].pc = pc /\ req'[r] # req[r]

\* request r has returned with HTTP status code
returned(r, op, code) ==
    req[r].pc = "done" /\ req[r].res.op = op /\ req[r].res.code = code

\* slot r receives a request of the kind op for the message id
receives(r, op, id) ==
    /\ req[r].pc = "idle" /\ req'[r].pc # "idle"
    /\ \/ req'[r].kind = op /\ req'[r].pc # "done" /\ req'[r].id = id
       \/ req'[r].pc = "done" /\ req'[r].res.op = op /\ req'[r].res.id = id

optedOut(phoneNumber) ==
    \E id \in DOMAIN messages :
        /\ messages[id].recipient.phoneNumber = phoneNumber
        /\ messages[id].recipient.optOutStatus

\* the reasons of the checks that fail for a send at the clock-hour hour, each
\* check evaluated on its own
failedChecks(client, recipient, content, hour) ==
    (IF ~verifyAge(recipient, client)
     THEN {"Age verification required"} ELSE {})
    \cup (IF ~verifyConsent(recipient, client)
          THEN {"Consent verification required"} ELSE {})
    \cup (IF ~screenContent(content, client).approved
          THEN {"Content failed screening: " \o screenContent(content, client).reason}
          ELSE {})
    \cup (IF ~checkDisclaimers(content, client).included
             /\ Len(client.complianceSettings.requiredDisclaimers) > 0
          THEN {"Required disclaimers missing"} ELSE {})
    \cup (IF ~checkBusinessHours(hour).allowed
          THEN {"Messages not allowed outside business hours"} ELSE {})
    \cup (IF ~checkRateLimit(recipient, client).allowed
          THEN {"Rate limit exceeded for recipient"} ELSE {})

range(seq) == {seq[i] : i \in DOMAIN seq}

-----------------------------------------------------------------------------
(* C1: every stored message whose delivery status is "sent" has
   compliance.ageVerificationPassed and compliance.consentVerified true, after
   any sequence of send, retry, cancel and webhook requests. *)
C1_SentImpliesCompliance ==
    \A id \in DOMAIN messages :
        messages[id].delivery.status = "sent" => complianceSatisfied(messages[id])

\* a message of a recipient who declared neither age nor consent was
\* dispatched and recorded as sent
C1_Witness ==
    \E id \in DOMAIN messages :
        /\ messages[id].delivery.status = "sent"
        /\ messages[id].recipient.phoneNumber = "4155550199"
        /\ attempts[id] > 0

(* C2: a transition into "sent" is rejected at persistence time for a record
   whose compliance sub-record is not satisfied: its stored status never
   becomes "sent", whatever its current status. *)
C2_SentTransitionGuarded ==
    [][\A id \in DOMAIN messages :
          (id \in DOMAIN messages' /\ ~complianceSatisfied(messages[id])
             /\ messages[id].delivery.status # "sent")
          => messages'[id].delivery.status # "sent"]_vars

(* C3: retryCount never exceeds maxRetries, and once the stored retryCount
   has reached maxRetries no retry request on that message is accepted (none
   increments the count and goes on to dispatch), under any interleaving of
   concurrent retry requests. *)
C3_RetryCountBounded ==
    \A id \in DOMAIN messages :
        messages[id].delivery.retryCount <= messages[id].delivery.maxRetries

C3_NoRetryOnceExhausted ==
    [][\A r \in Slots :
          (steps(r, "retry", "increment") /\ req'[r].pc = "dispatch")
          => /\ req[r].id \in DOMAIN messages
             /\ messages[req[r].id].delivery.retryCount
                  < messages[req[r].id].delivery.maxRetries]_vars

C3_RetriesSerialized == []C3_RetryCountBounded /\ C3_NoRetryOnceExhausted

(* C4: applying the webhook with a terminal status the message already has
   from the same callback succeeds and changes nothing of the stored record,
   deliveredAt included. *)
C4_WebhookIdempotent ==
    [][\A r \in Slots :
          (/\ steps(r, "webhook", "update")
           /\ req[r].body.status \in {"delivered", "failed", "undelivered"}
           /\ req[r].id \in DOMAIN messages
           /\ messages[req[r].id].delivery.status = req[r].body.status
           /\ messages[req[r].id].delivery.failureReason = req[r].body.error)
          => /\ req'[r].res.code = 200
             /\ messages' = messages]_vars

(* C5: a send whose compliance verdict is not passed returns a rejection that
   carries the verdict's reasons, creates no Message record and makes no
   provider call; with age and consent required and neither given, the
   reasons start with the age and the consent reason. *)
C5_RejectedSendLeavesNothing ==
    [][\A r \in Slots :
          (/\ steps(r, "send", "optout")
           /\ ~optedOut(req[r].body.recipient.phoneNumber)
           /\ "text" \in DOMAIN req[r].body.content
           /\ \A hour \in Hours :
                failedChecks(req[r].client, req[r].body.recipient,
                             req[r].body.content, hour) # {})
          => /\ req'[r].pc = "done"
             /\ req'[r].res.code = 400
             /\ req'[r].res.message = "Message failed compliance check"
             /\ \E hour \in Hours :
                  range(req'[r].res.details)
                    = failedChecks(req[r].client, req[r].body.recipient,
                                   req[r].body.content, hour)
             /\ (~verifyAge(req[r].body.recipient, req[r].client)
                   /\ ~verifyConsent(req[r].body.recipient, req[r].client))
                => SubSeq(req'[r].res.details, 1, 2)
                     = <<"Age verification required",
                         "Consent verification required">>
             /\ messages' = messages
             /\ nextId' = nextId
             /\ attempts' = attempts]_vars

\* a send to a recipient with neither age nor consent was rejected with both
\* reasons and the collection is still empty
C5_Witness ==
    \E r \in Slots :
        /\ returned(r, "send", 400)
        /\ Len(req[r].res.details) >= 2
        /\ SubSeq(req[r].res.details, 1, 2)
             = <<"Age verification required", "Consent verification required">>
        /\ messages = <<>>
        /\ nextId = 0
        /\ \A id \in Ids : attempts[id] = 0

(* C6: checkMessageCompliance evaluates every check: the verdict is passed
   exactly when no check fails, and its reason list has exactly one reason
   for each failed check. *)
C6_VerdictAggregatesAllChecks ==
    [][\A r \in Slots :
          (/\ steps(r, "send", "optout")
           /\ ~optedOut(req[r].body.recipient.phoneNumber)
           /\ "text" \in DOMAIN req[r].body.content)
          => LET passed == req'[r].pc = "persist"
                 details == IF passed THEN req'[r].verdict.details
                            ELSE req'[r].res.details
             IN \E hour \in Hours :
                  LET failed == failedChecks(req[r].client, req[r].body.recipient,
                                             req[r].body.content, hour)
                  IN /\ passed <=> failed = {}
                     /\ range(details) = failed
                     /\ Len(details) = Cardinality(failed)]_vars

\* a verdict that lists the age reason and the content-screening reason
C6_Witness ==
    \E r \in Slots :
        /\ returned(r, "send", 400)
        /\ "Age verification required" \in range(req[r].res.details)
        /\ "Content failed screening: Content contains restricted keywords: vape"
             \in range(req[r].res.details)

(* C7: a scheduled send stores the message with status "pending"; a cancel of
   a scheduled pending message succeeds and removes the record; a cancel of
   an id whose record is gone fails with 404 and changes nothing. *)
C7_CancelScheduled ==
    [][\A r \in Slots :
          /\ (steps(r, "send", "persist") /\ req[r].body.scheduling.isScheduled)
             => /\ nextId' \in DOMAIN messages'
                /\ messages'[nextId'].delivery.status = "pending"
                /\ messages'[nextId'].scheduling.isScheduled
          /\ \A id \in Ids :
               receives(r, "cancel", id)
               => IF /\ id \in DOMAIN messages
                     /\ messages[id].scheduling.isScheduled
                     /\ messages[id].delivery.status = "pending"
                  THEN req'[r].pc = "delete"
                  ELSE /\ req'[r].pc = "done"
                       /\ req'[r].res.code = 404
                       /\ messages' = messages
                       /\ tenant' = tenant
          /\ steps(r, "cancel", "delete")
             => /\ req'[r].res.code = 200
                /\ req[r].id \notin DOMAIN messages'
                /\ \A id \in DOMAIN messages \ {req[r].id} :
                     id \in DOMAIN messages' /\ messages'[id] = messages[id]]_vars

\* the second cancel of a cancelled message returned 404
C7_Witness ==
    \E r \in Slots :
        /\ returned(r, "cancel", 404)
        /\ req[r].res.id <= nextId
        /\ req[r].res.id # NoId
        /\ req[r].res.id \notin DOMAIN messages

(* C8: when the provider call of a non-scheduled send throws, the handler
   marks its document "failed" with the wrapped provider error and stamps no
   sentAt; the save stores status "failed" and that failureReason, sentAt
   stays unset, the usage counter is not changed, and the response carries
   that reason. *)
C8_ProviderFailure ==
    [][\A r \in Slots :
          /\ (steps(r, "send", "dispatch") /\ req'[r].pc = "markfailed")
             => /\ \E raw \in ProviderErrors :
                     req'[r].sendError = "Twilio error: " \o raw
                /\ req'[r].sendResult = ""
                /\ req'[r].doc.delivery.status = "failed"
                /\ req'[r].doc.delivery.failureReason = req'[r].sendError
                /\ req'[r].doc.delivery.sentAt = req[r].doc.delivery.sentAt
                /\ tenant' = tenant
          /\ (steps(r, "send", "markfailed") /\ req[r].sendResult = "")
             => /\ req[r].id \in DOMAIN messages'
                /\ messages'[req[r].id].delivery.status = "failed"
                /\ messages'[req[r].id].delivery.failureReason = req[r].sendError
                /\ messages'[req[r].id].delivery.sentAt = UNSET
                /\ tenant' = tenant
                /\ req'[r].res.code = 500
                /\ req'[r].res.error = req[r].sendError]_vars

\* a send whose provider call timed out has returned the wrapped reason
C8_Witness ==
    \E r \in Slots :
        /\ returned(r, "send", 500)
        /\ req[r].res.error = "Twilio error: timeout"
        /\ req[r].res.id \in DOMAIN messages
        /\ messages[req[r].res.id].delivery.status = "failed"
        /\ messages[req[r].res.id].delivery.failureReason = "Twilio error: timeout"
        /\ messages[req[r].res.id].delivery.sentAt = UNSET

(* C9: a send with scheduling.isScheduled persists the message as "pending"
   and returns status "scheduled" with no provider call, no change of the
   message status and no increment of the usage counter. *)
C9_ScheduledSendDoesNotDispatch ==
    [][\A r \in Slots :
          (steps(r, "send", "persist") /\ req[r].body.scheduling.isScheduled)
          => /\ req'[r].pc = "done"
             /\ req'[r].res.code = 200
             /\ req'[r].res.status = "scheduled"
             /\ req'[r].res.id \in DOMAIN messages'
             /\ messages'[req'[r].res.id].delivery.status = "pending"
             /\ messages'[req'[r].res.id].delivery.sentAt = UNSET
             /\ attempts' = attempts
             /\ attempts[req'[r].res.id] = 0
             /\ tenant' = tenant]_vars

\* a scheduled send has returned and its message is pending, never dispatched
C9_Witness ==
    \E r \in Slots :
        /\ returned(r, "send", 200)
        /\ req[r].res.status = "scheduled"
        /\ req[r].res.id \in DOMAIN messages
        /\ messages[req[r].res.id].delivery.status = "pending"
        /\ attempts[req[r].res.id] = 0
        /\ tenant.subscription.messagesUsed = 0

(* C10: the usage counter changes only in the step that completes a send or
   retry whose provider call was accepted and whose status "sent" the handler
   had saved, and every such step adds exactly one to the stored counter; no
   other step of any request changes it.  The first definition is the part
   about which steps write the counter and what they write (the counter of
   the client the handler loaded, plus one), the second the part about the
   stored counter growing by one with every confirmed dispatch. *)
C10_OnlyConfirmedDispatches ==
    [][/\ tenant'.subscription.messagesUsed # tenant.subscription.messagesUsed
          => \E r \in Slots :
               /\ req[r].kind \in {"send", "retry"}
               /\ req[r].pc = "count"
               /\ req[r].sendResult # ""
               /\ req[r].doc.delivery.status = "sent"
               /\ req[r].doc.delivery.providerMessageId = req[r].sendResult
               /\ attempts[req[r].id] > 0
               /\ req'[r].pc = "done"
               /\ req'[r].res.status = "sent"
               /\ tenant'.subscription.messagesUsed
                    = req[r].client.subscription.messagesUsed
       /\ \A r \in Slots :
            (req'[r] # req[r] /\ req'[r].pc = "count")
            => /\ req[r].pc = "marksent"
               /\ req[r].id \in DOMAIN messages'
               /\ messages'[req[r].id].delivery.status = "sent"
               /\ req'[r].client.subscription.messagesUsed
                    = req[r].client.subscription.messagesUsed + 1]_vars

C10_ExactlyOnePerDispatch ==
    [][\A r \in Slots :
         (/\ req[r].kind \in {"send", "retry"}
          /\ req[r].pc = "count"
          /\ req'[r].pc = "done"
          /\ req'[r].res.status = "sent")
         => tenant'.subscription.messagesUsed
              = tenant.subscription.messagesUsed + 1]_vars

C10_UsageCountsConfirmedDispatches ==
    C10_OnlyConfirmedDispatches /\ C10_ExactlyOnePerDispatch

\* the names of the variables a template declares as required
requiredNames(template) ==
    {template.content.variables[i].name :
       i \in {j \in DOMAIN template.content.variables :
                template.content.variables[j].required}}

\* the names a variable map supplies with a non-empty value
suppliedNames(variables) == {n \in DOMAIN variables : variables[n] # ""}

(* C11: when every required variable of the template is supplied with a
   non-empty value, validateVariables reports valid, also on the variables
   render returns, and the preview is answered with the rendering; when
   exactly one required variable is omitted and the others are supplied, it
   reports invalid with an error list that names exactly that variable. *)
C11_ValidateVariablesRoundTrip ==
    \A r \in Slots :
        (req[r].kind = "preview" /\ req[r].res.code # 404)
        => LET template == req[r].doc
               variables == req[r].body.variables
               omitted == requiredNames(template) \ DOMAIN variables
           IN /\ requiredNames(template) \subseteq suppliedNames(variables)
                 => /\ req[r].res.code = 200
                    /\ req[r].messageContent = render(template, variables)
                    /\ validateVariables(template,
                           req[r].messageContent.variables).isValid
              /\ (/\ Cardinality(omitted) = 1
                  /\ requiredNames(template) \ omitted
                       \subseteq suppliedNames(variables))
                 => /\ req[r].res.code = 400
                    /\ \E n \in omitted :
                         req[r].res.errors
                           = <<"Required variable '" \o n \o "' is missing">>

\* the name was supplied and the code omitted for a template that requires
\* both, and the error list of the answer names the code
C11_Witness ==
    \E r \in Slots :
        /\ returned(r, "preview", 400)
        /\ req[r].body.variables = [name |-> "Ann"]
        /\ requiredNames(req[r].doc) = {"name", "code"}
        /\ req[r].res.errors = <<"Required variable 'code' is missing">>

\* request r is at the template step of a send with a template of the tenant
resolves(r) ==
    /\ steps(r, "send", "template")
    /\ req[r].body.content.templateId \in DOMAIN templates
    /\ templates[req[r].body.content.templateId].owned

declaredOf(r) == templates[req[r].body.content.templateId].content.variables

suppliedOf(r) == suppliedNames(variablesOf(req[r].body.content))

rejectedAsMissing(r) ==
    /\ req'[r].pc = "done"
    /\ req'[r].res.message = "Template validation failed"

(* C12: a send with a template is not rejected as missing a variable when
   every required variable has a non-empty supplied value or a non-empty
   declared default. *)
C12_DefaultSatisfiesRequired ==
    [][\A r \in Slots :
         (/\ resolves(r)
          /\ \A i \in DOMAIN declaredOf(r) :
               declaredOf(r)[i].required
               => \/ declaredOf(r)[i].name \in suppliedOf(r)
                  \/ declaredOf(r)[i].defaultValue # "")
         => ~rejectedAsMissing(r)]_vars

(* C13: a retry of a message that is not "failed" or has no retry left, or
   of a tenant that may not send, is rejected and leaves the retry count, the
   delivery status and the usage counter as they were, with no provider
   call; an accepted retry adds exactly one to the stored retryCount and
   saves it before it calls the provider.  The first definition is the
   rejections and the order of an accepted retry (the count the handler
   loaded, plus one, is saved before the provider is called), the second the
   stored count growing by one with every accepted retry. *)
C13_RetryGuardAndSavedCount ==
    [][\A r \in Slots :
         /\ \A id \in DOMAIN messages :
              (/\ receives(r, "retry", id)
               /\ \/ messages[id].delivery.status # "failed"
                  \/ messages[id].delivery.retryCount
                       >= messages[id].delivery.maxRetries)
              => /\ req'[r].pc = "done"
                 /\ req'[r].res.code = 400
                 /\ UNCHANGED <<messages, tenant, attempts>>
         /\ (steps(r, "retry", "client") /\ ~canSendMessage(tenant))
            => /\ req'[r].pc = "done"
               /\ req'[r].res.code = 403
               /\ UNCHANGED <<messages, tenant, attempts>>
         /\ (steps(r, "retry", "client") /\ canSendMessage(tenant))
            => /\ req'[r].pc = "increment"
               /\ req'[r].doc.delivery.retryCount
                    = req[r].snap.delivery.retryCount + 1
               /\ UNCHANGED <<messages, tenant, attempts>>
         /\ (steps(r, "retry", "increment") /\ req[r].id \in DOMAIN messages)
            => /\ req'[r].pc \in {"dispatch", "markfailed"}
               /\ messages'[req[r].id].delivery.retryCount
                    = req[r].snap.delivery.retryCount + 1
               /\ messages'[req[r].id].delivery.status
                    = messages[req[r].id].delivery.status
               /\ UNCHANGED <<tenant, attempts>>
         /\ (req[r].kind = "retry" /\ attempts' # attempts /\ req'[r] # req[r])
            => /\ req[r].pc = "dispatch"
               /\ req[r].doc.delivery.retryCount
                    = req[r].snap.delivery.retryCount
               /\ req[r].doc.delivery.retryCount >= 1
               /\ canSendMessage(req[r].client)]_vars

C13_IncrementsByOne ==
    [][\A r \in Slots :
         (/\ steps(r, "retry", "increment")
          /\ req'[r].pc \in {"dispatch", "markfailed"})
         => /\ req[r].id \in DOMAIN messages
            /\ messages'[req[r].id].delivery.retryCount
                 = messages[req[r].id].delivery.retryCount + 1]_vars

C13_RetryGuardAndIncrement ==
    C13_RetryGuardAndSavedCount /\ C13_IncrementsByOne

(* C14: once the stored status of a message is "delivered", no webhook
   ingest, whatever status it carries, changes it to another status. *)
C14_DeliveredIsFinal ==
    [][\A r \in Slots :
         (/\ steps(r, "webhook", "update")
          /\ req[r].id \in DOMAIN messages
          /\ messages[req[r].id].delivery.status = "delivered")
         => messages'[req[r].id].delivery.status = "delivered"]_vars

(* C15: a message becomes "delivered" only from "sent" and only in a webhook
   ingest, so a delivered message always has sentAt set. *)
C15_DeliveredOnlyFromSent ==
    [][\A id \in DOMAIN messages :
         (/\ id \in DOMAIN messages'
          /\ messages[id].delivery.status # "delivered"
          /\ messages'[id].delivery.status = "delivered")
         => /\ messages[id].delivery.status = "sent"
            /\ messages'[id].delivery.sentAt # UNSET
            /\ \E r \in Slots : steps(r, "webhook", "update") /\ req[r].id = id]_vars

(* C16: whenever a message becomes "sent", by a send, a retry or a callback,
   the stored record has sentAt set and no failureReason. *)
C16_SentClearsFailureReason ==
    [][\A id \in DOMAIN messages' :
         (/\ messages'[id].delivery.status = "sent"
          /\ id \in DOMAIN messages => messages[id].delivery.status # "sent")
         => /\ messages'[id].delivery.sentAt # UNSET
            /\ messages'[id].delivery.failureReason = UNDEFINED]_vars

(* C17: under any interleaving of the sends and retries of the tenant, the
   number of dispatches accepted by the provider and recorded as "sent"
   never exceeds subscription.messagesLimit. *)
C17_UsageCeiling == confirmed <= tenant.subscription.messagesLimit

\* the positions of POST /send in the order of the handler
sendOrder == <<"idle", "optout", "template", "usage", "persist", "dispatch">>

position(pc) == CHOOSE i \in DOMAIN sendOrder : sendOrder[i] = pc

\* request r moves to the position pc of POST /send
reaches(r, pc) == req'[r] # req[r] /\ req'[r].kind = "send" /\ req'[r].pc = pc

(* C18: a send passes its positions in the order eligibility check, opt-out
   check, content resolution, compliance evaluation, first save, provider
   call, and moves on only when the step passed: the content evaluated is
   the resolved content, the record saved as pending carries it, and the
   provider is called only from the last position, with that content. *)
C18_SendStepsInOrder ==
    [][\A r \in Slots :
         /\ \A pc \in range(sendOrder) :
              reaches(r, pc)
              => /\ req[r].kind \in {"none", "send"}
                 /\ req[r].pc \in range(sendOrder)
                 /\ position(req[r].pc) < position(pc)
         /\ reaches(r, "optout") => canSendMessage(req'[r].client)
         /\ (steps(r, "send", "optout") /\ req'[r].pc # "done")
            => ~optedOut(req[r].body.recipient.phoneNumber)
         /\ reaches(r, "usage")
            => LET content == req[r].body.content
                   template == templates[content.templateId]
               IN /\ req[r].pc = "template"
                  /\ template.owned
                  /\ validateVariables(template, variablesOf(content)).isValid
                  /\ req'[r].messageContent.text
                       = render(template, variablesOf(content)).text
         /\ reaches(r, "persist")
            => /\ req[r].pc = IF "templateId" \in DOMAIN req[r].body.content
                              THEN "usage" ELSE "optout"
               /\ "templateId" \in DOMAIN req[r].body.content
                  => req'[r].messageContent = req[r].messageContent
               /\ "templateId" \notin DOMAIN req[r].body.content
                  => req'[r].messageContent = req[r].body.content
               /\ req'[r].verdict.passed
               /\ \E hour \in Hours :
                    req'[r].verdict
                      = checkMessageCompliance(req[r].client,
                            req[r].body.recipient, req'[r].messageContent, hour)
         /\ (steps(r, "send", "persist") /\ req'[r].pc # "done")
            => /\ req'[r].id \in DOMAIN messages' \ DOMAIN messages
               /\ messages'[req'[r].id].delivery.status = "pending"
               /\ messages'[req'[r].id].content = req[r].messageContent
               /\ req'[r].doc = messages'[req'[r].id]
         /\ (req[r].kind = "send" /\ req'[r] # req[r] /\ attempts' # attempts)
            => /\ req[r].pc = "dispatch"
               /\ req[r].verdict.passed
               /\ req[r].doc.content = req[r].messageContent
               /\ req[r].id \in DOMAIN messages
               /\ messages[req[r].id].content = req[r].messageContent
               /\ req'[r].messageData.body = req[r].messageContent.text]_vars

\* the provider was called with the rendered text of a template send whose
\* record is stored pending
C18_Witness ==
    \E r \in Slots :
        /\ req[r].kind = "send" /\ req[r].pc = "marksent"
        /\ "templateId" \in DOMAIN req[r].body.content
        /\ req[r].messageData.body = <<"Hi", "Ann", "use", "Ann", "21+">>
        /\ messages[req[r].id].delivery.status = "pending"
        /\ attempts[req[r].id] = 1

(* C19: a send whose message the provider accepted and that recorded it as
   "sent" answers with success and the record is not turned to "failed",
   also when the notification cannot be emitted; a webhook whose status
   update was saved answers with success. *)
C19_NotificationNeverFailsDispatch ==
    [][/\ \A r \in Slots :
            /\ steps(r, "send", "count")
               => /\ req'[r].pc = "done"
                  /\ req'[r].res.code = 200
                  /\ req'[r].res.status = "sent"
            /\ (/\ steps(r, "webhook", "update")
                /\ save(req[r].doc, req[r].snap, req[r].id, messages).error = "")
               => /\ req'[r].pc = "done"
                  /\ req'[r].res.code = 200
       /\ \A id \in DOMAIN messages :
            (/\ id \in DOMAIN messages'
             /\ messages[id].delivery.status = "sent"
             /\ messages'[id].delivery.status = "failed")
            => \E r \in Slots : steps(r, "webhook", "update") /\ req[r].id = id]_vars

(* C20: the address handed to the provider by a send or a retry is the
   recipient address normalized by formatPhoneNumber: it starts with "+",
   and a 10-digit address without "+" is handed over as "+1" followed by
   it. *)
C20_AddressNormalizedBeforeSend ==
    [][\A r \in Slots :
         (/\ req[r].kind \in {"send", "retry"}
          /\ req[r].pc = "dispatch"
          /\ attempts' # attempts)
         => LET formatted == formatPhoneNumber(req[r].doc.recipient.phoneNumber)
            IN /\ formatted.error = ""
               /\ req'[r].messageData.to = formatted.value
               /\ startsWith(req[r].doc.recipient.phoneNumber, "+")
                  \/ req'[r].messageData.to
                       = "+1" \o req[r].doc.recipient.phoneNumber]_vars

\* checkMessageCompliance returns to slot r
complied(r) == req[r].pc = "idle" /\ req'[r].kind = "comply"

\* the reason of the first screening sub-check that content fails, in the
\* order keyword, inappropriate pattern, media, length
firstReason(content, client) ==
    LET text == lowerText(content.text)
        foundKeywords == filter(client.complianceSettings.restrictedKeywords, text)
    IN IF Len(foundKeywords) > 0
       THEN "Content contains restricted keywords: " \o join(foundKeywords)
       ELSE IF ~checkInappropriateContent(text).approved
       THEN checkInappropriateContent(text).reason
       ELSE IF Len(content.media) > 0 /\ ~checkMediaContent(content.media).approved
       THEN checkMediaContent(content.media).reason
       ELSE IF textLength(text) > MaxTextLength
       THEN "Message exceeds character limit"
       ELSE ""

(* C21: screenContent reports the reason of the first sub-check that the
   content fails, in the order keyword, inappropriate pattern, media,
   length, and reports the content as screened. *)
C21_FirstFailingReason ==
    [][\A r \in Slots :
         complied(r)
         => /\ req'[r].verdict.contentScreened
            /\ req'[r].verdict.screeningReason
                 = firstReason(req'[r].body.content, req'[r].client)]_vars

(* C22: for a tenant whose restrictedKeywords list is empty, a text that
   contains a word of the built-in restricted-keyword list fails content
   screening. *)
C22_BuiltInKeywordFallback ==
    [][\A r \in Slots :
         (/\ complied(r)
          /\ req'[r].client.complianceSettings.restrictedKeywords = <<>>
          /\ Len(filter(restrictedKeywords,
                        lowerText(req'[r].body.content.text))) > 0)
         => /\ ~req'[r].verdict.passed
            /\ \E i \in DOMAIN req'[r].verdict.details :
                 req'[r].verdict.details[i]
                   = "Content failed screening: " \o req'[r].verdict.screeningReason
            /\ req'[r].verdict.screeningReason # ""]_vars

(* C23: the verdict lists "Required disclaimers missing" exactly when the
   tenant's requiredDisclaimers list is non-empty and no entry of it occurs,
   case-insensitively, in the text. *)
C23_DisclaimerCheck ==
    [][\A r \in Slots :
         complied(r)
         => LET required == req'[r].client.complianceSettings.requiredDisclaimers
                text == lowerText(req'[r].body.content.text)
                occurs == \E i \in DOMAIN required :
                            includes(text, toLowerCase(required[i]))
                missing == "Required disclaimers missing"
                             \in range(req'[r].verdict.details)
            IN /\ missing <=> (Len(required) > 0 /\ ~occurs)
               /\ missing => ~req'[r].verdict.passed
               /\ occurs => req'[r].verdict.disclaimersIncluded]_vars

\* one verdict that found the capitalised second disclaimer of the tenant's
\* list, and the list is not empty
C23_Witness ==
    \E r \in Slots :
        /\ req[r].kind = "comply" /\ req[r].pc = "done"
        /\ req[r].body.content.text = <<"Consume responsibly">>
        /\ Len(req[r].client.complianceSettings.requiredDisclaimers) = 2
        /\ req[r].verdict.disclaimersIncluded
        /\ "Required disclaimers missing" \notin range(req[r].verdict.details)

(* C24: an opt-out record for an address, once stored, stays stored, and
   every send to an address that has one is rejected at the opt-out check,
   before content resolution, with no record created and no provider
   call. *)
C24_OptOutPermanent ==
    [][/\ \A phoneNumber \in Phones :
            optedOut(phoneNumber) => optedOut(phoneNumber)'
       /\ \A r \in Slots :
            (steps(r, "send", "optout")
               /\ optedOut(req[r].body.recipient.phoneNumber))
            => /\ req'[r].pc = "done"
               /\ req'[r].res.code = 400
               /\ req'[r].res.message = "Recipient has opted out of messages"
               /\ UNCHANGED <<messages, nextId, attempts, templates>>]_vars

(* C25: a send rejected by the compliance evaluation leaves the message
   collection, the tenant's usage counter and the template's usage counters
   as they were: the step that rejects it changes none of them. *)
C25_RejectionLeavesNoState ==
    [][\A r \in Slots :
         (/\ req[r].kind = "send"
          /\ req'[r] # req[r]
          /\ req'[r].pc = "done"
          /\ req'[r].res.message = "Message failed compliance check")
         => UNCHANGED <<messages, nextId, tenant, templates, attempts>>]_vars

(* C26: a record leaves the collection only in the delete of a cancel, and
   the record deleted is scheduled and pending when it is deleted. *)
C26_DeletesOnlyPendingScheduled ==
    [][\A id \in DOMAIN messages :
         id \notin DOMAIN messages'
         => /\ \E r \in Slots : steps(r, "cancel", "delete") /\ req[r].id = id
            /\ messages[id].scheduling.isScheduled
            /\ messages[id].delivery.status = "pending"]_vars

(* C27: the provider is called at most 1 + maxRetries times for a message. *)
C27_DispatchAttemptsBounded ==
    \A id \in DOMAIN messages :
        attempts[id] <= 1 + messages[id].delivery.maxRetries

(* C28: a send or retry whose provider call returned successfully never
   stores the status "failed" for its message. *)
C28_AcceptedNeverMarkedFailed ==
    [][\A r \in Slots :
         (/\ req[r].kind \in {"send", "retry"}
          /\ req[r].pc = "markfailed"
          /\ req[r].sendResult # ""
          /\ req'[r] # req[r]
          /\ req[r].id \in DOMAIN messages')
         => messages'[req[r].id].delivery.status # "failed"]_vars

(* C29: a record is stored with recipient.ageVerified, respectively
   recipient.consentGiven, true only if the send request declared it. *)
C29_AuditFieldsAsDeclared ==
    [][\A r \in Slots :
         (steps(r, "send", "persist") /\ nextId' # nextId)
         => /\ messages'[nextId'].recipient.ageVerified
                 => req[r].body.recipient.ageVerified
            /\ messages'[nextId'].recipient.consentGiven
                 => req[r].body.recipient.consentGiven]_vars

(* C30: whenever no request is being served, subscription.messagesUsed is
   the number of dispatches recorded as "sent" since messagesUsed was 0. *)
C30_NoLostIncrement ==
    (\A r \in Slots : req[r].pc \in {"idle", "done"})
    => tenant.subscription.messagesUsed = confirmed

====
